---- MODULE Spec2Model ----
(***************************************************************************)
(* PixelGuard PDF editor: document sessions, the annotation store with its *)
(* undo / redo history, the canvas gesture handlers, and the asynchronous  *)
(* file load, page render and export of src/App.tsx, together with the     *)
(* burn-in pipeline of src/utils/pdfUtils.ts.                              *)
(*                                                                         *)
(* Numbers.  A zoom scale is held in hundredths (1.0 is 100).  A document  *)
(* coordinate is held in units of 1/DocQ point, DocQ being chosen so that  *)
(* a device pixel divided by any zoom scale the program can reach is a     *)
(* whole number of units: conversions are exact, as in real arithmetic.    *)
(***************************************************************************)
EXTENDS Integers, Sequences, FiniteSets, TLC

\* ---------------------------------------------------------------- bounds
\* Sessions ever created, annotations ever appended, pages of a file,
\* points of a pen path, and how many loads / renders / exports are in
\* flight at once.
MaxDocs == 2
MaxAnns == 2
MaxPages == 2
MaxPath == 3
MaxLoads == 1
MaxRenders == 2
MaxUnder == 2
MaxExports == 2
MaxZoomSteps == 1
MaxRects == 3
StoreAnns == 3

\* ------------------------------------------------------ program constants
InitScale == 100
ZoomStep == 25
MinScale == 50
MaxScale == 300
MinDrag == 5
TextWidth == 100
TextHeight == 20
MinPenPoints == 2
ExportScale == 200
BlockSize == 12

\* A page is PageHeight points high.
PageHeight == 200

\* Document units per point: every zoom scale the program reaches (50, 75,
\* ..., 300 hundredths) divides 100 * DocQ.
DocQ == 2 * 3 * 3 * 5 * 7 * 11

\* 'blur', 'blackout' and 'whiteout' take the same branch of every handler
\* as 'mosaic'; the tools the user is given here are one of each branch.
RedactionType == {"mosaic", "rectangle", "pen", "text"}
ToolMode == {"view", "edit"}

\* Device positions a mouse event can carry (relative to the canvas).
DevPts == {<<0, 0>>, <<3, 3>>, <<5, 5>>, <<10, 10>>}
NoPos == <<>>

\* What prompt() can return: null (cancelled), the empty string, or a text.
PromptNull == "<null>"
PromptResults == {PromptNull, "", "a", "b"}

Null == 0

\* A file of a load: the number of its pages, or an unreadable file.
BadFile == Null
Files == {BadFile} \cup (1..MaxPages)

VARIABLES
  documents,        \* useState<DocumentSession[]>
  activeDocId,      \* useState<string | null>
  toolType,         \* useState<RedactionType>
  mode,             \* useState<ToolMode>
  processing,       \* processing.isProcessing
  showSaveModal,    \* useState(false)
  isDragging,       \* useRef(false)
  startPos,         \* useRef<{x,y} | null>
  currentMousePos,  \* useRef<{x,y} | null>
  currentPath,      \* useRef<Point[]>
  currentViewport,  \* useRef<any>: null, a pending promise, or a viewport
  pointer,          \* where the mouse pointer is: over the canvas or not
  dragDoc,          \* history: the session that was active at onMouseDown
  loads,            \* handleFileChange calls awaiting createDocument
  renders,          \* renderBase runs awaiting getPage / renderPage
  exports,          \* performSave calls: timer pending, or export running
  nextDocId,        \* sessions created so far (ids are fresh)
  nextAnnId,        \* annotations created so far (ids are fresh)
  env,              \* what the environment offers (fixed by Init): the
                    \* inputs of the events and the bounds on what is
                    \* created or in flight
  exp,              \* one call of saveRedactedPdf, step by step
  offscreenCanvas,  \* offscreenCanvasRef: what the base canvas holds
  canvas            \* canvasRef: what the visible canvas shows

vars == <<documents, activeDocId, toolType, mode, processing, showSaveModal,
          isDragging, startPos, currentMousePos, currentPath, currentViewport,
          pointer, dragDoc, loads, renders, exports, nextDocId, nextAnnId,
          env, exp, offscreenCanvas, canvas>>

uiVars == <<toolType, mode>>
dragVars == <<isDragging, startPos, currentMousePos, currentPath, dragDoc>>
idVars == <<nextDocId, nextAnnId, env, exp>>
canvasVars == <<offscreenCanvas, canvas>>

\* ------------------------------------------------------------- helpers
Min(a, b) == IF a <= b THEN a ELSE b
Max(a, b) == IF a >= b THEN a ELSE b
Abs(a) == IF a >= 0 THEN a ELSE -a

\* documents.find(d => d.id === id)
HasDoc(docs, id) == \E i \in DOMAIN docs : docs[i].id = id
FindDoc(docs, id) == docs[CHOOSE i \in DOMAIN docs : docs[i].id = id]

\* const activeDoc = documents.find(d => d.id === activeDocId)
HasActiveDoc == HasDoc(documents, activeDocId)
activeDoc == FindDoc(documents, activeDocId)

NoViewport == [kind |-> "null", doc |-> Null, page |-> 0, scale |-> 0]
PendingViewport == [kind |-> "promise", doc |-> Null, page |-> 0, scale |-> 0]
Viewport(doc, page, scale) ==
  [kind |-> "viewport", doc |-> doc, page |-> page, scale |-> scale]

\* viewport.convertToPdfPoint(x, y) = (x / s, H - y / s)
convertToPdfPoint(vp, p) ==
  << (p[1] * 100 * DocQ) \div vp.scale,
     PageHeight * DocQ - (p[2] * 100 * DocQ) \div vp.scale >>

\* A converted point that is not turned upside down
ViewportPointUnflipped(vp, X, Y) == << X * vp.scale, Y * vp.scale >>

\* viewport.convertToViewportPoint(X, Y) = (X * s, (H - Y) * s), as a number
\* of 1/(100 * DocQ) device pixels (a whole number whatever the scale).
convertToViewportPoint(vp, X, Y) ==
  << X * vp.scale, (PageHeight * DocQ - Y) * vp.scale >>
DevQ == 100 * DocQ

\* viewport.convertToPdfPoint on a device point given, like the results of
\* convertToViewportPoint, in 1/DevQ pixels
convertQToPdfPoint(vp, d) ==
  << d[1] \div vp.scale, PageHeight * DocQ - d[2] \div vp.scale >>

NoPath == <<>>
NoText == ""

\* ---------------------------------------------------------- the canvases
\* The base canvas (offscreenCanvasRef): none yet; resized and so cleared,
\* with a render of a page under way; being painted (pdf.js has filled the
\* background); or holding the finished raster of a page at a scale.
NoCanvas == [kind |-> "none", doc |-> Null, page |-> 0, scale |-> 0]
Cleared(doc, page, scale) ==
  [kind |-> "cleared", doc |-> doc, page |-> page, scale |-> scale]
Painting(doc, page, scale) ==
  [kind |-> "painting", doc |-> doc, page |-> page, scale |-> scale]
Raster(doc, page, scale) ==
  [kind |-> "raster", doc |-> doc, page |-> page, scale |-> scale]

NoRect == [x |-> 0, y |-> 0, width |-> 0, height |-> 0]
NoPreview == [kind |-> "none", rect |-> NoRect, path |-> <<>>]

\* The visible canvas (canvasRef): its size (that of a page at a scale), the
\* base image last drawn on it, what was drawn over that since, in order,
\* and how many earlier compositions show through a base that did not
\* cover them.
Blank ==
  [size |-> 0, under |-> 0, base |-> NoCanvas, layers |-> <<>>,
   preview |-> NoPreview]

\* ------------------------------------------------------------- Init
\* No document is open: the landing page, with the first run of the render
\* effect having cleared the viewport (App.tsx 233-236).
\* No call of saveRedactedPdf is being followed.  raster lists the redactions
\* whose effect has been drawn onto the page raster in hand, and patches what
\* the raster held each time a patch was read from it.
ExpIdle ==
  [pc |-> "idle", bufferOk |-> TRUE, numPages |-> 0, redactions |-> <<>>,
   groups |-> <<>>, gi |-> 0, ri |-> 0, rasterized |-> <<>>, ops |-> <<>>,
   raster |-> <<>>, patches |-> <<>>, result |-> "none"]

\* The application as constructed (lines 71-96).
AppStart ==
  /\ documents = <<>>
  /\ activeDocId = Null
  /\ toolType = "mosaic"
  /\ mode = "view"
  /\ processing = FALSE
  /\ showSaveModal = FALSE
  /\ isDragging = FALSE
  /\ startPos = NoPos
  /\ currentMousePos = NoPos
  /\ currentPath = NoPath
  /\ currentViewport = NoViewport
  /\ pointer = "outside"
  /\ dragDoc = Null
  /\ loads = <<>>
  /\ renders = <<>>
  /\ exports = <<>>
  /\ nextDocId = 0
  /\ nextAnnId = 0
  /\ offscreenCanvas = NoCanvas
  /\ canvas = Blank

InitApp(e) ==
  /\ env = e
  /\ exp = ExpIdle
  /\ AppStart

\* ------------------------------------------------- drawing the overlay
\* A device rectangle hung below the converted lower-left corner
DeviceRectFromLowerCorner(vp, ann) ==
  LET c == convertToViewportPoint(vp, ann.x, ann.y)
  IN [x |-> c[1], y |-> c[2],
      width |-> ann.width * vp.scale, height |-> ann.height * vp.scale]

\* The device rectangle of an annotation (lines 479-484): its two extreme
\* corners converted, then min and abs of the results; in 1/DevQ pixels.
DeviceRect(vp, ann) ==
  LET c1 == convertToViewportPoint(vp, ann.x, ann.y + ann.height)
      c2 == convertToViewportPoint(vp, ann.x + ann.width, ann.y)
  IN [x |-> Min(c1[1], c2[1]), y |-> Min(c1[2], c2[2]),
      width |-> Abs(c2[1] - c1[1]), height |-> Abs(c2[2] - c1[2])]

\* applyMosaicEffect(ctx, x, y, w, h, blockSize): the region is read from
\* the canvas, reduced to a grid of gw x gh cells, drawn back over the
\* region, and a border of line width 1 is stroked along its edge, half of
\* it outside.  Nothing is drawn for an empty region.
MosaicBlock == 8
applyMosaicEffect(rect) ==
  IF rect.width <= 0 \/ rect.height <= 0
  THEN [drawn |-> FALSE, reads |-> NoRect, writes |-> NoRect,
        gw |-> 0, gh |-> 0]
  ELSE [drawn |-> TRUE, reads |-> rect,
        writes |-> [x |-> rect.x - DevQ \div 2, y |-> rect.y - DevQ \div 2,
                    width |-> rect.width + DevQ,
                    height |-> rect.height + DevQ],
        gw |-> Max(1, rect.width \div (MosaicBlock * DevQ)),
        gh |-> Max(1, rect.height \div (MosaicBlock * DevQ))]

\* renderAnnotationOnCanvas(ctx, ann, viewport): the annotation drawn at its
\* device place, a mosaic with applyMosaicEffect, a pen stroke along its
\* converted path.
renderAnnotationOnCanvas(vp, ann) ==
  LET rect == DeviceRect(vp, ann) IN
  [id |-> ann.id, type |-> ann.type, rect |-> rect,
   path |-> [k \in DOMAIN ann.path |->
               convertToViewportPoint(vp, ann.path[k][1], ann.path[k][2])],
   text |-> ann.text,
   effect |-> IF ann.type = "mosaic" THEN applyMosaicEffect(rect)
              ELSE applyMosaicEffect(NoRect)]

\* What a drawOverlay closure holds (useCallback over activeDoc, toolType and
\* mode): the session it draws, if any, and the tool and mode.
NoSession ==
  [id |-> Null, numPages |-> 0, currIndex |-> 0, scale |-> 0,
   annotations |-> <<>>, redoStack |-> <<>>]
Closure(docs, act, tool, m) ==
  [has |-> HasDoc(docs, act),
   doc |-> IF HasDoc(docs, act) THEN FindDoc(docs, act) ELSE NoSession,
   toolType |-> tool, mode |-> m]

NoClosure ==
  [has |-> FALSE, doc |-> NoSession, toolType |-> "mosaic", mode |-> "view"]

\* Step 3 of drawOverlay (lines 286-330): the preview of the gesture
Preview(cl, dragging, start, cur, path) ==
  IF ~(dragging /\ cl.mode = "edit") THEN NoPreview
  ELSE IF cl.toolType = "pen" /\ Len(path) > 0
  THEN [kind |-> "path", rect |-> NoRect, path |-> path]
  ELSE IF start # NoPos /\ cur # NoPos /\ cl.toolType \notin {"pen", "text"}
  THEN [kind |-> IF cl.toolType = "rectangle" THEN "stroke" ELSE "dashed",
        rect |-> [x |-> Min(start[1], cur[1]), y |-> Min(start[2], cur[2]),
                  width |-> Abs(cur[1] - start[1]),
                  height |-> Abs(cur[2] - start[2])],
        path |-> <<>>]
  ELSE NoPreview

\* Something is painted on the visible canvas
Painted(c) ==
  \/ c.under > 0 \/ c.layers # <<>> \/ c.preview # NoPreview
  \/ c.base.kind \in {"painting", "raster"}

\* drawOverlay (lines 262-332) called on a visible canvas showing prior, by
\* the closure cl, with the refs as given.  The visible canvas takes the
\* size of the base canvas (which clears it when the size changes); the
\* base canvas is drawn over it, covering it unless it is still clear; then
\* the annotations of the page, in order; then the preview.  While
\* currentViewport holds a promise the first annotation makes the call
\* throw, after the base was drawn.
drawOverlay(prior, cl, off, vp, dragging, start, cur, path) ==
  IF off.kind = "none" \/ vp.kind = "null" \/ ~cl.has THEN prior
  ELSE
    LET sized == IF prior.size # off.scale
                 THEN [Blank EXCEPT !.size = off.scale] ELSE prior
        pageAnns == SelectSeq(cl.doc.annotations,
                              LAMBDA r : r.pageIndex = cl.doc.currIndex)
        based == [size |-> off.scale,
                  under |-> IF off.kind = "cleared" /\ Painted(sized)
                            THEN sized.under + 1 ELSE 0,
                  base |-> off, layers |-> <<>>, preview |-> NoPreview]
    IN IF pageAnns # <<>> /\ vp.kind # "viewport" THEN based
       ELSE [based EXCEPT
               !.layers = [k \in DOMAIN pageAnns |->
                             renderAnnotationOnCanvas(vp, pageAnns[k])],
               !.preview = Preview(cl, dragging, start, cur, path)]

\* A drawOverlay that sizes the base canvas (which clears it)
drawOverlayClearsBase(off) ==
  IF off.kind = "none" THEN off ELSE [off EXCEPT !.kind = "cleared"]

\* The base canvas after a call of drawOverlay that found it as off: it is
\* only read, as the source of drawImage (line 275); the sizing (269-272)
\* and every drawing call (275-327) are on the visible canvas and its
\* context.
drawOverlayBase(off) == off

\* The closure of the commit a step ends with
ClosureAfter == Closure(documents', activeDocId', toolType', mode')

\* A drawOverlay call at the end of a step, by closure cl, on a visible
\* canvas showing prior: the refs are read as the step leaves them.
Draw(prior, cl) ==
  drawOverlay(prior, cl, offscreenCanvas', currentViewport', isDragging',
              startPos', currentMousePos', currentPath')

\* The step leaves the visible canvas showing c (at most MaxUnder
\* compositions deep).
Shows(c) == canvas' = c /\ c.under <= MaxUnder

\* The step ends with a call of drawOverlay by the closure cl (env.canvas:
\* whether the two canvases are followed).
Paint(cl) == Shows(IF env.canvas THEN Draw(canvas, cl) ELSE canvas)

\* The step ends with a commit.  The canvas element lives while the main
\* view is shown (documents.length > 0); the effect of line 334 calls
\* drawOverlay when the commit made a new closure (activeDoc, toolType or
\* mode changed).
Commit ==
  Shows(IF ~env.canvas THEN canvas
        ELSE IF Len(documents') = 0 THEN Blank
        ELSE IF ClosureAfter # Closure(documents, activeDocId, toolType, mode)
        THEN Draw(canvas, ClosureAfter)
        ELSE canvas)

\* The step ends with the commit of an updateActiveDoc: the active session
\* is a new object, so the closure is new and the effect of line 334 calls
\* drawOverlay.
Repaint ==
  IF HasActiveDoc THEN Paint(ClosureAfter) ELSE UNCHANGED canvas

\* The closure of the render the step's handler belongs to
ClosureNow == Closure(documents, activeDocId, toolType, mode)

\* The step's handler ends with a call of drawOverlay, its own (line 440);
\* if it updated the session, the commit that follows calls the new one.
PaintThenCommit ==
  Shows(IF ~env.canvas THEN canvas
        ELSE LET first == Draw(canvas, ClosureNow)
             IN IF documents' # documents THEN Draw(first, ClosureAfter)
                ELSE first)

\* The base canvas after a step that leaves it as off
Offscreen(off) ==
  offscreenCanvas' = IF env.canvas THEN off ELSE offscreenCanvas

\* ----------------------------------------------------- the render effect
\* useEffect(..., [activeDoc?.id, activeDoc?.currIndex, activeDoc?.scale])
DepsOf(docs, act) ==
  IF HasDoc(docs, act)
  THEN LET d == FindDoc(docs, act) IN <<d.id, d.currIndex, d.scale>>
  ELSE <<Null, 0, 0>>

RemoveAt(s, i) == [j \in 1..(Len(s) - 1) |-> IF j < i THEN s[j] ELSE s[j + 1]]

\* The effect's cleanup: mounted = false in the previous run's closure.
Unmounted(rs) == [i \in DOMAIN rs |-> [rs[i] EXCEPT !.mounted = FALSE]]

\* After a commit that leaves documents docs2, active id act2 and the
\* processing flag proc2: when the dependencies changed the previous run is
\* cleaned up and renderBase starts; it runs up to its first await.  The
\* run keeps the drawOverlay of its commit (cl) for line 251.
RenderEffect(docs2, act2, proc2) ==
  IF DepsOf(docs2, act2) = DepsOf(documents, activeDocId)
  THEN /\ renders' = renders
       /\ currentViewport' = currentViewport
       /\ processing' = proc2
       /\ UNCHANGED offscreenCanvas
  ELSE IF ~HasDoc(docs2, act2)
  THEN /\ renders' = Unmounted(renders)
       /\ currentViewport' = NoViewport
       /\ processing' = proc2
       /\ Offscreen(NoCanvas)
  ELSE LET d == FindDoc(docs2, act2) IN
       /\ Len(renders) < env.maxRenders
       /\ renders' = Append(Unmounted(renders),
                      [doc |-> d.id, page |-> d.currIndex, scale |-> d.scale,
                       mounted |-> TRUE, pc |-> "getPage",
                       cl |-> IF env.canvas
                              THEN Closure(docs2, act2, toolType, mode)
                              ELSE NoClosure])
       /\ currentViewport' = currentViewport
       /\ processing' = TRUE
       /\ UNCHANGED offscreenCanvas

\* await activeDoc.pdfProxy.getPage(...) settles; on success line 244 stores
\* the promise of the first renderPage call in currentViewport.
RenderGetPage(i, ok) ==
  /\ i \in DOMAIN renders
  /\ renders[i].pc = "getPage"
  /\ IF ok
     THEN /\ currentViewport' = PendingViewport
          /\ renders' = [renders EXCEPT ![i].pc = "render"]
          /\ Offscreen(Cleared(renders[i].doc, renders[i].page,
                               renders[i].scale))
          /\ UNCHANGED processing
     ELSE /\ renders' = RemoveAt(renders, i)
          /\ processing' = IF renders[i].mounted THEN FALSE ELSE processing
          /\ UNCHANGED <<currentViewport, offscreenCanvas>>
  /\ UNCHANGED <<documents, activeDocId, uiVars, showSaveModal, dragVars,
                 pointer, loads, exports, idVars, canvas>>

\* pdf.js starts to paint the page of a render on the base canvas: the
\* first operators have arrived and the background is filled.
RenderPaint(i) ==
  /\ env.canvas
  /\ i \in DOMAIN renders
  /\ renders[i].pc = "render"
  /\ offscreenCanvas =
       Cleared(renders[i].doc, renders[i].page, renders[i].scale)
  /\ offscreenCanvas' =
       Painting(renders[i].doc, renders[i].page, renders[i].scale)
  /\ UNCHANGED <<documents, activeDocId, uiVars, processing, showSaveModal,
                 dragVars, currentViewport, pointer, loads, renders, exports,
                 idVars, canvas>>

\* await renderPage(page, offscreenCanvasRef.current, scale) settles: the
\* base canvas holds the page unless a later render has cleared it since;
\* line 249 stores the viewport and, if this run is still mounted, line 251
\* calls the drawOverlay of the run's commit.
RenderDone(i, ok) ==
  /\ i \in DOMAIN renders
  /\ renders[i].pc = "render"
  /\ currentViewport' =
       IF ok THEN Viewport(renders[i].doc, renders[i].page, renders[i].scale)
       ELSE currentViewport
  /\ renders' = RemoveAt(renders, i)
  /\ processing' = IF renders[i].mounted THEN FALSE ELSE processing
  /\ LET r == renders[i] IN
     Offscreen(IF ok /\ offscreenCanvas \in {Cleared(r.doc, r.page, r.scale),
                                             Painting(r.doc, r.page, r.scale)}
               THEN Raster(r.doc, r.page, r.scale)
               ELSE offscreenCanvas)
  /\ UNCHANGED <<documents, activeDocId, uiVars, showSaveModal, dragVars,
                 pointer, loads, exports, idVars>>
  /\ IF ok /\ renders[i].mounted THEN Paint(renders[i].cl)
     ELSE UNCHANGED canvas

\* -------------------------------------------------- document management
\* createDocument: the session of a loaded file
NewDoc(id, numPages) ==
  [id |-> id, numPages |-> numPages, currIndex |-> 0, scale |-> InitScale,
   annotations |-> <<>>, redoStack |-> <<>>]

\* The landing page (documents.length === 0) offers the file input alone.
AppShown == Len(documents) > 0
\* The save modal covers the window; a mouse click reaches what is under the
\* pointer only.
CanClickChrome == pointer = "outside" /\ ~showSaveModal
CanvasShown == AppShown /\ HasActiveDoc
CanUseCanvas == CanvasShown /\ pointer = "canvas" /\ ~showSaveModal

\* handleFileChange up to its first await; the ids createDocument will draw
\* (Math.random) are fresh, and are set aside here.
LoadStart(files) ==
  /\ CanClickChrome
  /\ Len(files) > 0
  /\ Len(loads) < env.maxLoads
  /\ nextDocId + Len(files) <= env.maxDocs
  /\ loads' = Append(loads, [files |-> files, base |-> nextDocId])
  /\ nextDocId' = nextDocId + Len(files)
  /\ processing' = TRUE
  /\ UNCHANGED <<documents, activeDocId, uiVars, showSaveModal, dragVars,
                 currentViewport, pointer, renders, exports, nextAnnId, env,
                 exp, canvasVars>>

\* A load that looks at its first file only
FirstRead(files) == files[1] # BadFile

\* Every createDocument of the loop resolved (lines 125-127): none threw
AllRead(files) == \A k \in DOMAIN files : files[k] # BadFile

\* handleFileChange after the last createDocument settled: every file was
\* read (try), or one was not (catch); then finally.
LoadFinish(i) ==
  /\ i \in DOMAIN loads
  /\ LET files == loads[i].files
         base == loads[i].base
         newDocs == [k \in DOMAIN files |-> NewDoc(base + k, files[k])]
         good == AllRead(files)
         docs2 == IF good THEN documents \o newDocs ELSE documents
         act2 == IF good THEN newDocs[1].id ELSE activeDocId
     IN /\ documents' = docs2
        /\ activeDocId' = act2
        /\ RenderEffect(docs2, act2, FALSE)
  /\ loads' = RemoveAt(loads, i)
  /\ UNCHANGED <<uiVars, showSaveModal, dragVars, pointer, exports, idVars>>
  /\ Commit

\* The tab's onClick: setActiveDocId(doc.id)
SelectTab(id) ==
  /\ AppShown /\ CanClickChrome
  /\ HasDoc(documents, id)
  /\ activeDocId' = id
  /\ RenderEffect(documents, id, processing)
  /\ UNCHANGED <<documents, uiVars, showSaveModal, dragVars, pointer, loads,
                 exports, idVars>>
  /\ Commit

\* A close that leaves the active id as it is
closeDocumentKeepsActive(id) ==
  /\ AppShown /\ CanClickChrome
  /\ HasDoc(documents, id)
  /\ LET newDocs == SelectSeq(documents, LAMBDA d : d.id # id)
     IN /\ documents' = newDocs
        /\ activeDocId' = activeDocId
        /\ RenderEffect(newDocs, activeDocId, processing)
  /\ UNCHANGED <<uiVars, showSaveModal, dragVars, pointer, loads, exports,
                 idVars>>
  /\ Commit

\* The tab's close button (lines 152-163)
closeDocument(id) ==
  /\ AppShown /\ CanClickChrome
  /\ HasDoc(documents, id)
  /\ LET newDocs == SelectSeq(documents, LAMBDA d : d.id # id)
         act2 == IF activeDocId = id /\ Len(newDocs) > 0
                 THEN newDocs[Len(newDocs)].id
                 ELSE IF Len(newDocs) = 0 THEN Null ELSE activeDocId
     IN /\ documents' = newDocs
        /\ activeDocId' = act2
        /\ RenderEffect(newDocs, act2, processing)
  /\ UNCHANGED <<uiVars, showSaveModal, dragVars, pointer, loads, exports,
                 idVars>>
  /\ Commit

\* An update that reaches every session
AnySession(d) == TRUE

\* The test of updateActiveDoc's map: d.id === activeDocId
IsActive(d) == d.id = activeDocId

\* The sessions an updater may be handed
Sessions == {documents[i] : i \in DOMAIN documents}

\* updateActiveDoc(updater): the documents after the update, the updater
\* being given as the function it computes on the open sessions
updateActiveDoc(updater) ==
  IF activeDocId = Null THEN documents
  ELSE [i \in DOMAIN documents |->
          IF IsActive(documents[i]) THEN updater[documents[i]]
          ELSE documents[i]]

\* ------------------------------------------------------- undo / redo
\* Updaters that differ from the program's, each in one respect: the
\* properties of the store must tell them from the program's.
\* An undo that pushes under the redo stack
UndoPushesUnder(d) ==
  IF Len(d.annotations) = 0 THEN d
  ELSE [d EXCEPT
          !.annotations = SubSeq(d.annotations, 1, Len(d.annotations) - 1),
          !.redoStack = <<d.annotations[Len(d.annotations)]>> \o d.redoStack]

\* An undo that forgets what it removes
UndoForgets(d) ==
  IF Len(d.annotations) = 0 THEN d
  ELSE [d EXCEPT
          !.annotations = SubSeq(d.annotations, 1, Len(d.annotations) - 1)]

\* A redo that takes the oldest entry of the redo stack
RedoTakesOldest(d) ==
  IF Len(d.redoStack) = 0 THEN d
  ELSE [d EXCEPT
          !.annotations = Append(d.annotations, d.redoStack[1]),
          !.redoStack = Tail(d.redoStack)]

\* A redo that puts the annotation back on the page shown
RedoOntoPageShown(d) ==
  IF Len(d.redoStack) = 0 THEN d
  ELSE [d EXCEPT
          !.annotations =
            Append(d.annotations,
                   [d.redoStack[Len(d.redoStack)] EXCEPT
                      !.pageIndex = d.currIndex]),
          !.redoStack = SubSeq(d.redoStack, 1, Len(d.redoStack) - 1)]

\* A redo that leaves its entry on the redo stack
RedoLeavesStack(d) ==
  IF Len(d.redoStack) = 0 THEN d
  ELSE [d EXCEPT
          !.annotations = Append(d.annotations, d.redoStack[Len(d.redoStack)])]

\* An append that keeps the redo stack
AppendKeepsRedo(d, newAnn) ==
  [d EXCEPT !.annotations = Append(d.annotations, newAnn)]

\* A clear that removes the annotations of every page
ClearEveryPage(d) ==
  [d EXCEPT !.annotations = <<>>, !.redoStack = <<>>]

\* An edit that changes every text annotation
EditEveryText(d, id, newText) ==
  [d EXCEPT
     !.annotations = [k \in DOMAIN d.annotations |->
                        IF d.annotations[k].type = "text"
                        THEN [d.annotations[k] EXCEPT !.text = newText]
                        ELSE d.annotations[k]],
     !.redoStack = <<>>]

\* The updater of handleUndo
UndoUpdate(d) ==
  IF Len(d.annotations) = 0 THEN d
  ELSE [d EXCEPT
          !.annotations = SubSeq(d.annotations, 1, Len(d.annotations) - 1),
          !.redoStack = Append(d.redoStack, d.annotations[Len(d.annotations)])]

\* The updater of handleRedo
RedoUpdate(d) ==
  IF Len(d.redoStack) = 0 THEN d
  ELSE [d EXCEPT
          !.annotations = Append(d.annotations, d.redoStack[Len(d.redoStack)]),
          !.redoStack = SubSeq(d.redoStack, 1, Len(d.redoStack) - 1)]

\* The updater of every append: [...d.annotations, newAnn], redoStack: []
AppendUpdate(d, newAnn) ==
  [d EXCEPT !.annotations = Append(d.annotations, newAnn), !.redoStack = <<>>]

\* The updater of the clear-page button
ClearPageUpdate(d) ==
  [d EXCEPT
     !.annotations = SelectSeq(d.annotations,
                               LAMBDA r : r.pageIndex # d.currIndex),
     !.redoStack = <<>>]

\* The updater of handleDoubleClick's text edit
EditTextUpdate(d, id, newText) ==
  [d EXCEPT
     !.annotations = [k \in DOMAIN d.annotations |->
                        IF d.annotations[k].id = id
                        THEN [d.annotations[k] EXCEPT !.text = newText]
                        ELSE d.annotations[k]],
     !.redoStack = <<>>]

storeFrame == <<activeDocId, uiVars, processing, showSaveModal, dragVars,
                currentViewport, pointer, loads, renders, exports, nextDocId,
                env, exp, offscreenCanvas>>

\* handleUndo: the toolbar button (disabled with nothing to undo) or Ctrl+Z
\* (the key handler is registered whatever is shown).
handleUndo ==
  /\ documents' = updateActiveDoc([d \in Sessions |-> UndoUpdate(d)])
  /\ UNCHANGED <<storeFrame, nextAnnId>>
  /\ Repaint

\* handleRedo: the toolbar button, or Ctrl+Y / Ctrl+Shift+Z
handleRedo ==
  /\ documents' = updateActiveDoc([d \in Sessions |-> RedoUpdate(d)])
  /\ UNCHANGED <<storeFrame, nextAnnId>>
  /\ Repaint

\* The clear-page button
ClearPage ==
  /\ AppShown /\ CanClickChrome
  /\ documents' = updateActiveDoc([d \in Sessions |-> ClearPageUpdate(d)])
  /\ UNCHANGED <<storeFrame, nextAnnId>>
  /\ Repaint

\* ------------------------------------------------------ toolbar, view
SetMode(m) ==
  /\ AppShown /\ CanClickChrome
  /\ mode' = m
  /\ UNCHANGED <<documents, activeDocId, toolType, processing, showSaveModal,
                 dragVars, currentViewport, pointer, loads, renders, exports,
                 idVars, offscreenCanvas>>
  /\ Commit

\* A tool button: setToolType(t); setMode('edit')
SetTool(t) ==
  /\ AppShown /\ CanClickChrome
  /\ toolType' = t
  /\ mode' = "edit"
  /\ UNCHANGED <<documents, activeDocId, processing, showSaveModal, dragVars,
                 currentViewport, pointer, loads, renders, exports, idVars,
                 offscreenCanvas>>
  /\ Commit

viewFrame == <<activeDocId, uiVars, showSaveModal, dragVars, pointer, loads,
               exports, idVars>>

\* A view change that empties the redo stack, as every annotation update does
ViewChangeClearsRedo(updater) ==
  LET docs2 == [i \in DOMAIN documents |->
                  IF IsActive(documents[i])
                  THEN [updater[documents[i]] EXCEPT !.redoStack = <<>>]
                  ELSE documents[i]]
  IN /\ documents' = docs2
     /\ RenderEffect(docs2, activeDocId, processing)
     /\ UNCHANGED viewFrame
     /\ Repaint

\* A view change of the active session, then the render effect
ViewChange(updater) ==
  LET docs2 == updateActiveDoc(updater) IN
  /\ documents' = docs2
  /\ RenderEffect(docs2, activeDocId, processing)
  /\ UNCHANGED viewFrame
  /\ Repaint

\* The previous-page button (disabled on the first page)
PrevPage ==
  /\ CanvasShown /\ CanClickChrome
  /\ activeDoc.currIndex # 0
  /\ ViewChange([d \in Sessions |->
                  [d EXCEPT !.currIndex = Max(0, d.currIndex - 1)]])

\* The next-page button (disabled on the last page)
NextPage ==
  /\ CanvasShown /\ CanClickChrome
  /\ activeDoc.currIndex # activeDoc.numPages - 1
  /\ ViewChange([d \in Sessions |->
                  [d EXCEPT !.currIndex =
                              Min(d.numPages - 1, d.currIndex + 1)]])

\* A thumbnail of the sidebar: currIndex: i
Thumbnail(i) ==
  /\ CanvasShown /\ CanClickChrome
  /\ i \in 0..(activeDoc.numPages - 1)
  /\ ViewChange([d \in Sessions |-> [d EXCEPT !.currIndex = i]])

\* The zoom buttons; the user keeps within env.maxZoom steps of the initial
\* scale.
ZoomOut ==
  /\ CanvasShown /\ CanClickChrome
  /\ activeDoc.scale - ZoomStep >= InitScale - env.maxZoom * ZoomStep
  /\ ViewChange([d \in Sessions |->
                  [d EXCEPT !.scale = Max(MinScale, d.scale - ZoomStep)]])

\* A zoom-in button without the upper limit
ZoomInUnlimited ==
  /\ CanvasShown /\ CanClickChrome
  /\ activeDoc.scale + ZoomStep <= InitScale + env.maxZoom * ZoomStep
  /\ ViewChange([d \in Sessions |-> [d EXCEPT !.scale = d.scale + ZoomStep]])

\* The zoom-in button: Math.min(3.0, d.scale + 0.25)
ZoomIn ==
  /\ CanvasShown /\ CanClickChrome
  /\ activeDoc.scale + ZoomStep <= InitScale + env.maxZoom * ZoomStep
  /\ ViewChange([d \in Sessions |->
                  [d EXCEPT !.scale = Min(MaxScale, d.scale + ZoomStep)]])

\* ------------------------------------------------------------ gestures
Annotation(id, pageIndex, x, y, width, height, type, path, text) ==
  [id |-> id, pageIndex |-> pageIndex, x |-> x, y |-> y, width |-> width,
   height |-> height, type |-> type, path |-> path, text |-> text]

\* The pointer enters the canvas (no handler is bound to it).
MouseEnter ==
  /\ ~showSaveModal
  /\ pointer = "outside"
  /\ pointer' = "canvas"
  /\ UNCHANGED <<documents, activeDocId, uiVars, processing, showSaveModal,
                 dragVars, currentViewport, loads, renders, exports, idVars,
                 canvasVars>>

\* onMouseDown; it returns at once in view mode and for the text tool.
onMouseDown(pos) ==
  /\ CanUseCanvas
  /\ mode = "edit"
  /\ toolType # "text"
  /\ isDragging' = TRUE
  /\ startPos' = pos
  /\ currentMousePos' = pos
  /\ currentPath' = IF toolType = "pen" THEN <<pos>> ELSE currentPath
  /\ dragDoc' = activeDocId
  /\ UNCHANGED <<documents, activeDocId, uiVars, processing, showSaveModal,
                 currentViewport, pointer, loads, renders, exports, idVars>>
  /\ Offscreen(drawOverlayBase(offscreenCanvas))
  /\ Paint(ClosureNow)

\* onMouseMove; it returns at once when no drag is in progress.
onMouseMove(pos) ==
  /\ CanUseCanvas
  /\ isDragging
  /\ currentMousePos' = pos
  /\ IF toolType = "pen"
     THEN /\ Len(currentPath) < env.maxPath
          /\ currentPath' = Append(currentPath, pos)
     ELSE UNCHANGED currentPath
  /\ UNCHANGED <<documents, activeDocId, uiVars, processing, showSaveModal,
                 isDragging, startPos, dragDoc, currentViewport, pointer,
                 loads, renders, exports, idVars>>
  /\ Offscreen(drawOverlayBase(offscreenCanvas))
  /\ Paint(ClosureNow)

\* The pen annotation of onMouseUp (lines 386-400)
PenAnnotation(id, doc, vp, path) ==
  Annotation(id, doc.currIndex, 0, 0, 0, 0, "pen",
             [k \in DOMAIN path |-> convertToPdfPoint(vp, path[k])], NoText)

\* The box annotation of onMouseUp (lines 409-430)
BoxAnnotation(id, doc, vp, start, endPos, type) ==
  LET x == Min(start[1], endPos[1])
      y == Min(start[2], endPos[2])
      w == Abs(endPos[1] - start[1])
      h == Abs(endPos[2] - start[2])
      p1 == convertToPdfPoint(vp, <<x, y>>)
      p2 == convertToPdfPoint(vp, <<x + w, y + h>>)
  IN Annotation(id, doc.currIndex, Min(p1[1], p2[1]), Min(p1[2], p2[2]),
                Abs(p2[1] - p1[1]), Abs(p2[2] - p1[2]), type, NoPath, NoText)

\* w > 5 && h > 5
BigEnough(start, endPos) ==
  /\ Abs(endPos[1] - start[1]) > MinDrag
  /\ Abs(endPos[2] - start[2]) > MinDrag

\* A pen release that keeps any path that is not empty
PathNotEmpty(path) == Len(path) > 0

\* pdfPath.length > 2
PathLongEnough(path) == Len(path) > MinPenPoints

\* The handler bound to mouseup and to mouseleave.  While the render effect
\* is between its two awaits currentViewport holds a promise: it passes the
\* null test of line 376 and the call of convertToPdfPoint throws, leaving
\* the handler after isDragging = false.  A handler that runs to its end
\* calls drawOverlay (line 440).
onMouseUp(pos) ==
  IF \/ toolType = "text"
     \/ ~isDragging \/ startPos = NoPos
     \/ currentViewport.kind = "null" \/ ~HasActiveDoc
  THEN UNCHANGED <<documents, dragVars, nextAnnId, canvas>>
  ELSE
    /\ isDragging' = FALSE
    /\ dragDoc' = Null
    /\ IF toolType = "pen"
       THEN IF currentViewport.kind = "promise" /\ Len(currentPath) > 0
            THEN UNCHANGED <<documents, nextAnnId, startPos, currentMousePos,
                             currentPath, canvas>>
            ELSE /\ IF PathLongEnough(currentPath)
                    THEN /\ nextAnnId < env.maxAnns
                         /\ nextAnnId' = nextAnnId + 1
                         /\ documents' = updateActiveDoc([d \in Sessions |->
                              AppendUpdate(d, PenAnnotation(nextAnnId + 1,
                                 activeDoc, currentViewport, currentPath))])
                    ELSE UNCHANGED <<documents, nextAnnId>>
                 /\ currentPath' = NoPath
                 /\ startPos' = NoPos
                 /\ currentMousePos' = NoPos
                 /\ PaintThenCommit
       ELSE IF BigEnough(startPos, pos) /\ currentViewport.kind = "promise"
            THEN UNCHANGED <<documents, nextAnnId, startPos, currentMousePos,
                             currentPath, canvas>>
            ELSE /\ IF BigEnough(startPos, pos)
                    THEN /\ nextAnnId < env.maxAnns
                         /\ nextAnnId' = nextAnnId + 1
                         /\ documents' = updateActiveDoc([d \in Sessions |->
                              AppendUpdate(d, BoxAnnotation(nextAnnId + 1,
                                 activeDoc, currentViewport, startPos, pos,
                                 toolType))])
                    ELSE UNCHANGED <<documents, nextAnnId>>
                 /\ startPos' = NoPos
                 /\ currentMousePos' = NoPos
                 /\ UNCHANGED currentPath
                 /\ PaintThenCommit

gestureFrame == <<activeDocId, uiVars, processing, showSaveModal,
                  currentViewport, loads, renders, exports, nextDocId,
                  env, exp, offscreenCanvas>>

\* mouseup on the canvas
MouseUp(pos) ==
  /\ CanUseCanvas
  /\ UNCHANGED <<gestureFrame, pointer>>
  /\ onMouseUp(pos)

\* The pointer leaves the canvas: onMouseLeave={onMouseUp}
MouseLeave(pos) ==
  /\ pointer = "canvas"
  /\ pointer' = "outside"
  /\ UNCHANGED gestureFrame
  /\ IF CanvasShown /\ ~showSaveModal
     THEN onMouseUp(pos)
     ELSE UNCHANGED <<documents, dragVars, nextAnnId, canvas>>

\* The text annotation of handleCanvasClick (lines 450-459)
TextAnnotation(id, doc, vp, pos, text) ==
  LET p == convertToPdfPoint(vp, pos)
  IN Annotation(id, doc.currIndex, p[1], p[2], TextWidth * DocQ,
                TextHeight * DocQ, "text", NoPath, text)

\* handleCanvasClick with the text tool, prompt() returning text; a null or
\* empty text appends nothing, and a promise in currentViewport throws.
handleCanvasClick(pos, text) ==
  /\ CanUseCanvas
  /\ currentViewport.kind # "null"
  /\ mode = "edit" /\ toolType = "text"
  /\ IF text # PromptNull /\ text # "" /\ currentViewport.kind = "viewport"
     THEN /\ nextAnnId < env.maxAnns
          /\ nextAnnId' = nextAnnId + 1
          /\ documents' = updateActiveDoc([d \in Sessions |->
               AppendUpdate(d, TextAnnotation(nextAnnId + 1, activeDoc,
                                              currentViewport, pos, text))])
     ELSE UNCHANGED <<documents, nextAnnId>>
  /\ UNCHANGED <<storeFrame>>
  /\ IF documents' # documents THEN Paint(ClosureAfter)
     ELSE UNCHANGED canvas

\* The hit test of handleDoubleClick (lines 479-486): the annotation's
\* device rectangle against the click.
Hit(vp, ann, pos) ==
  LET r == DeviceRect(vp, ann)
  IN /\ pos[1] * DevQ >= r.x /\ pos[1] * DevQ <= r.x + r.width
     /\ pos[2] * DevQ >= r.y /\ pos[2] * DevQ <= r.y + r.height

\* The annotation handleDoubleClick edits: the last text annotation of the
\* current page that the click hits (a hit rectangle is passed over), as an
\* index into the session's annotations; 0 when there is none.
HitText(doc, vp, pos) ==
  LET hits == {k \in DOMAIN doc.annotations :
                 /\ doc.annotations[k].pageIndex = doc.currIndex
                 /\ doc.annotations[k].type = "text"
                 /\ Hit(vp, doc.annotations[k], pos)}
  IN IF hits = {} THEN 0 ELSE CHOOSE k \in hits : \A j \in hits : j <= k

\* handleDoubleClick, prompt() returning newText (null: cancelled)
handleDoubleClick(pos, newText) ==
  /\ CanUseCanvas
  /\ currentViewport.kind = "viewport"
  /\ LET k == HitText(activeDoc, currentViewport, pos) IN
     /\ k # 0
     /\ newText # PromptNull
     /\ documents' = updateActiveDoc([d \in Sessions |->
          EditTextUpdate(d, activeDoc.annotations[k].id, newText)])
  /\ UNCHANGED <<storeFrame, nextAnnId>>
  /\ Repaint

\* ----------------------------------------------------------------- save
\* The save button (disabled while processing): the modal opens.
handleSaveClick ==
  /\ AppShown /\ CanClickChrome
  /\ ~processing
  /\ HasActiveDoc
  /\ showSaveModal' = TRUE
  /\ UNCHANGED <<documents, activeDocId, uiVars, processing, dragVars,
                 currentViewport, pointer, loads, renders, exports, idVars,
                 canvasVars>>

\* The modal's cancel / close button
CancelSave ==
  /\ showSaveModal
  /\ showSaveModal' = FALSE
  /\ UNCHANGED <<documents, activeDocId, uiVars, processing, dragVars,
                 currentViewport, pointer, loads, renders, exports, idVars,
                 canvasVars>>

\* performSave up to setTimeout: the callback closes over activeDoc, the
\* session as rendered when the modal's button was clicked.
performSave ==
  /\ showSaveModal
  /\ HasActiveDoc
  /\ Len(exports) < env.maxExports
  /\ showSaveModal' = FALSE
  /\ processing' = TRUE
  /\ exports' = Append(exports, [doc |-> activeDoc.id,
                                 annotations |-> activeDoc.annotations,
                                 pc |-> "timer"])
  /\ UNCHANGED <<documents, activeDocId, uiVars, dragVars, currentViewport,
                 pointer, loads, renders, idVars, canvasVars>>

\* A timer callback that reads the session as it is when the timer fires
ExportStartReadsSession(i) ==
  /\ i \in DOMAIN exports
  /\ exports[i].pc = "timer"
  /\ exports' = [exports EXCEPT
                   ![i].pc = "running",
                   ![i].annotations =
                      IF HasDoc(documents, exports[i].doc)
                      THEN FindDoc(documents, exports[i].doc).annotations
                      ELSE @]
  /\ UNCHANGED <<documents, activeDocId, uiVars, processing, showSaveModal,
                 dragVars, currentViewport, pointer, loads, renders, idVars,
                 canvasVars>>

\* The timer fires: saveRedactedPdf is called and awaited.
ExportStart(i) ==
  /\ i \in DOMAIN exports
  /\ exports[i].pc = "timer"
  /\ exports' = [exports EXCEPT ![i].pc = "running"]
  /\ UNCHANGED <<documents, activeDocId, uiVars, processing, showSaveModal,
                 dragVars, currentViewport, pointer, loads, renders, idVars,
                 canvasVars>>

\* An export that empties the redo stack of its session as it settles
ExportFinishClearsRedo(i) ==
  /\ i \in DOMAIN exports
  /\ exports[i].pc = "running"
  /\ exports' = RemoveAt(exports, i)
  /\ processing' = FALSE
  /\ documents' = [k \in DOMAIN documents |->
                     IF documents[k].id = exports[i].doc
                     THEN [documents[k] EXCEPT !.redoStack = <<>>]
                     ELSE documents[k]]
  /\ UNCHANGED <<activeDocId, uiVars, showSaveModal, dragVars,
                 currentViewport, pointer, loads, renders, idVars, canvasVars>>

\* saveRedactedPdf settles (the download, or the alert), then finally.
ExportFinish(i) ==
  /\ i \in DOMAIN exports
  /\ exports[i].pc = "running"
  /\ exports' = RemoveAt(exports, i)
  /\ processing' = FALSE
  /\ UNCHANGED <<documents, activeDocId, uiVars, showSaveModal, dragVars,
                 currentViewport, pointer, loads, renders, idVars, canvasVars>>

\* ------------------------------------------- the application as a whole
\* Files a load is given: every list of one or two files, each unreadable or
\* of MaxPages pages.
FileLists ==
  LET F == {BadFile, MaxPages}
  IN {<<f>> : f \in F} \cup {<<f, g>> : f \in F, g \in F}

Far == {<<0, 0>>, <<10, 10>>}

\* Pointer positions that span boxes of unequal sides, away from the origin
Wide == {<<0, 0>>, <<10, 10>>, <<40, 30>>}

\* Two sessions are loaded and switched between, with drags of the mosaic
\* tool on whichever is active; renders may fail.
AppEnv ==
  [maxDocs |-> MaxDocs, maxAnns |-> MaxAnns, maxPath |-> MaxPath,
   maxLoads |-> MaxLoads, maxRenders |-> MaxRenders,
   maxExports |-> MaxExports, maxZoom |-> 0, renderOk |-> BOOLEAN,
   tools |-> {"mosaic"}, pts |-> Far, texts |-> {PromptNull, "a"},
   files |-> FileLists,
   canvas |-> FALSE]

Init == InitApp(AppEnv)

Next ==
  \/ \E files \in env.files : LoadStart(files)
  \/ \E i \in 1..env.maxLoads : LoadFinish(i)
  \/ \E i \in 1..env.maxRenders, ok \in env.renderOk : RenderGetPage(i, ok)
  \/ \E i \in 1..env.maxRenders, ok \in env.renderOk : RenderDone(i, ok)
  \/ \E id \in 1..env.maxDocs : SelectTab(id)
  \/ \E id \in 1..env.maxDocs : closeDocument(id)
  \/ handleUndo
  \/ handleRedo
  \/ \E m \in ToolMode : SetMode(m)
  \/ \E t \in env.tools : SetTool(t)
  \/ MouseEnter
  \/ \E pos \in env.pts : onMouseDown(pos)
  \/ \E pos \in env.pts : onMouseMove(pos)
  \/ \E pos \in env.pts : MouseUp(pos)
  \/ \E pos \in env.pts : MouseLeave(pos)

Spec == Init /\ [][Next]_vars

\* ------------------------------------------------------ loads that fail
\* Files are loaded, up to two loads at a time, some of them unreadable,
\* while tabs are selected and boxes are drawn on the sessions there are.
LoadEnv ==
  [maxDocs |-> MaxDocs + 1, maxAnns |-> 1, maxPath |-> MaxPath,
   maxLoads |-> MaxLoads + 1, maxRenders |-> 1, maxExports |-> 0,
   maxZoom |-> 0, renderOk |-> {TRUE}, tools |-> {"mosaic"}, pts |-> Far,
   texts |-> {PromptNull}, files |-> FileLists,
   canvas |-> FALSE]

InitLoad == InitApp(LoadEnv)

NextLoad ==
  \/ \E files \in env.files : LoadStart(files)
  \/ \E i \in 1..env.maxLoads : LoadFinish(i)
  \/ \E i \in 1..env.maxRenders, ok \in env.renderOk : RenderGetPage(i, ok)
  \/ \E i \in 1..env.maxRenders, ok \in env.renderOk : RenderDone(i, ok)
  \/ \E id \in 1..env.maxDocs : SelectTab(id)
  \/ \E m \in ToolMode : SetMode(m)
  \/ MouseEnter
  \/ \E pos \in env.pts : onMouseDown(pos)
  \/ \E pos \in env.pts : MouseUp(pos)
  \/ \E pos \in env.pts : MouseLeave(pos)

SpecLoad == InitLoad /\ [][NextLoad]_vars

\* ------------------------------------------------ two loaded sessions
\* A session the user has worked on and left: on its last page, zoomed in
\* once, one box drawn and kept, one text label placed and undone.
Bystander ==
  LET d == [NewDoc(2, MaxPages) EXCEPT
              !.currIndex = MaxPages - 1, !.scale = InitScale + ZoomStep]
      vp == Viewport(d.id, d.currIndex, d.scale)
  IN [d EXCEPT
        !.annotations =
           <<BoxAnnotation(1, d, vp, <<0, 0>>, <<10, 10>>, "mosaic")>>,
        !.redoStack = <<TextAnnotation(2, d, vp, <<10, 10>>, "a")>>]

\* The state after two files were loaded, the second session was worked on
\* (Bystander), the first tab was selected again and its page was rendered,
\* the mosaic tool being selected.
InitLoaded(e) ==
  /\ env = e
  /\ exp = ExpIdle
  /\ documents = <<NewDoc(1, MaxPages), Bystander>>
  /\ activeDocId = 1
  /\ toolType = "mosaic"
  /\ mode = "edit"
  /\ processing = FALSE
  /\ showSaveModal = FALSE
  /\ isDragging = FALSE
  /\ startPos = NoPos
  /\ currentMousePos = NoPos
  /\ currentPath = NoPath
  /\ currentViewport = Viewport(1, 0, InitScale)
  /\ pointer = "outside"
  /\ dragDoc = Null
  /\ loads = <<>>
  /\ renders = <<>>
  /\ exports = <<>>
  /\ nextDocId = 2
  /\ nextAnnId = 2
  /\ offscreenCanvas = IF e.canvas THEN Raster(1, 0, InitScale) ELSE NoCanvas
  /\ canvas = IF e.canvas
              THEN [Blank EXCEPT !.size = InitScale,
                                 !.base = Raster(1, 0, InitScale)]
              ELSE Blank

\* ----------------------------------------------- the annotation store
\* Every kind of append (box drag, pen stroke, text click), text edits, undo
\* and redo on the first session, its page and zoom being left alone.
StoreEnv ==
  [maxDocs |-> 2, maxAnns |-> 2 + StoreAnns, maxPath |-> MaxPath,
   maxLoads |-> 0, maxRenders |-> 0, maxExports |-> 0, maxZoom |-> 0,
   renderOk |-> {TRUE}, tools |-> {"mosaic", "pen", "text"}, pts |-> Far,
   texts |-> {PromptNull, "", "a"}, files |-> {},
   canvas |-> FALSE]

InitStore == InitLoaded(StoreEnv)

NextStore ==
  \/ handleUndo
  \/ handleRedo
  \/ \E t \in env.tools : SetTool(t)
  \/ MouseEnter
  \/ \E pos \in env.pts : onMouseDown(pos)
  \/ \E pos \in env.pts : onMouseMove(pos)
  \/ \E pos \in env.pts : MouseUp(pos)
  \/ \E pos \in env.pts : MouseLeave(pos)
  \/ \E pos \in env.pts, text \in env.texts : handleCanvasClick(pos, text)
  \/ \E pos \in env.pts, text \in env.texts : handleDoubleClick(pos, text)

SpecStore == InitStore /\ [][NextStore]_vars

\* ----------------------------------------------------- the session's view
\* Boxes and text labels on the first session while its page and zoom
\* change (each change starts a render, which completes).
ViewEnv ==
  [maxDocs |-> 2, maxAnns |-> 2 + MaxAnns, maxPath |-> MaxPath,
   maxLoads |-> 0, maxRenders |-> 1, maxExports |-> 0,
   maxZoom |-> MaxZoomSteps, renderOk |-> {TRUE},
   tools |-> {"mosaic", "text"}, pts |-> Far, texts |-> {PromptNull, "a"},
   files |-> {},
   canvas |-> FALSE]

InitView == InitLoaded(ViewEnv)

NextView ==
  \/ \E i \in 1..env.maxRenders, ok \in env.renderOk : RenderGetPage(i, ok)
  \/ \E i \in 1..env.maxRenders, ok \in env.renderOk : RenderDone(i, ok)
  \/ handleUndo
  \/ handleRedo
  \/ ClearPage
  \/ \E t \in env.tools : SetTool(t)
  \/ PrevPage
  \/ NextPage
  \/ \E i \in 0..(MaxPages - 1) : Thumbnail(i)
  \/ ZoomOut
  \/ ZoomIn
  \/ MouseEnter
  \/ \E pos \in env.pts : onMouseDown(pos)
  \/ \E pos \in env.pts : MouseUp(pos)
  \/ \E pos \in env.pts : MouseLeave(pos)
  \/ \E pos \in env.pts, text \in env.texts : handleCanvasClick(pos, text)
  \/ \E pos \in env.pts, text \in env.texts : handleDoubleClick(pos, text)

SpecView == InitView /\ [][NextView]_vars

\* ------------------------------------------------ the two canvases
\* The first session with its base canvas and the visible canvas followed:
\* boxes and pen strokes are drawn on either page, pages are turned (each
\* turn starts a render, which clears the base canvas, paints it and
\* completes), tools are changed, undo and redo.
OverlayEnv ==
  [maxDocs |-> 2, maxAnns |-> 2 + 1, maxPath |-> 2,
   maxLoads |-> 0, maxRenders |-> 1, maxExports |-> 0, maxZoom |-> 0,
   renderOk |-> {TRUE}, tools |-> {"mosaic", "pen"}, pts |-> Far,
   texts |-> {PromptNull}, files |-> {},
   canvas |-> TRUE]

InitOverlay == InitLoaded(OverlayEnv)

NextOverlay ==
  \/ \E i \in 1..env.maxRenders, ok \in env.renderOk : RenderGetPage(i, ok)
  \/ \E i \in 1..env.maxRenders : RenderPaint(i)
  \/ \E i \in 1..env.maxRenders, ok \in env.renderOk : RenderDone(i, ok)
  \/ handleUndo
  \/ handleRedo
  \/ \E t \in env.tools : SetTool(t)
  \/ PrevPage
  \/ NextPage
  \/ MouseEnter
  \/ \E pos \in env.pts : onMouseDown(pos)
  \/ \E pos \in env.pts : onMouseMove(pos)
  \/ \E pos \in env.pts : MouseUp(pos)
  \/ \E pos \in env.pts : MouseLeave(pos)

SpecOverlay == InitOverlay /\ [][NextOverlay]_vars

\* C21: two calls of drawOverlay in a row, nothing else having changed,
\* leave the visible canvas the same, and what they leave is the base
\* canvas and nothing older, the annotations of the page shown in the order
\* of the sequence, and the preview of the gesture in progress if there is
\* one.
Redrawn(c) ==
  drawOverlay(c, ClosureNow, offscreenCanvas, currentViewport, isDragging,
              startPos, currentMousePos, currentPath)

C21_Recomposition ==
  (env.canvas /\ HasActiveDoc /\ offscreenCanvas.kind # "none"
     /\ currentViewport.kind # "null") =>
    LET d == FindDoc(documents, activeDocId)
        once == Redrawn(canvas)
        pageAnns == SelectSeq(d.annotations,
                              LAMBDA r : r.pageIndex = d.currIndex)
    IN /\ Redrawn(once) = once
       /\ once.under = 0
       /\ once.base = offscreenCanvas
       /\ Len(once.layers) = Len(pageAnns)
       /\ \A k \in DOMAIN pageAnns : once.layers[k].id = pageAnns[k].id
       /\ once.preview =
            Preview(ClosureNow, isDragging, startPos, currentMousePos,
                    currentPath)

\* C22: a handler that only redraws the overlay (mouse down and mouse move
\* on the canvas) leaves the base canvas, the annotation sequences and the
\* redo stacks as they were, whatever it draws on the visible canvas.
C22_NonDestructive ==
  [][(env.canvas /\ canvas' # canvas
        /\ \E pos \in env.pts : onMouseDown(pos) \/ onMouseMove(pos))
       => /\ offscreenCanvas' = offscreenCanvas
          /\ documents' = documents]_vars

\* A preview is shown over an annotation of the page and the finished
\* raster, the session having something to redo.
C22_Witness ==
  /\ env.canvas /\ HasActiveDoc
  /\ canvas.preview # NoPreview /\ canvas.layers # <<>>
  /\ canvas.base = offscreenCanvas /\ offscreenCanvas.kind = "raster"
  /\ FindDoc(documents, activeDocId).redoStack # <<>>

\* ------------------------------------------------- boxes at every zoom
\* The first session is zoomed over the whole range of the zoom buttons
\* (MinScale to MaxScale), each zoom rendering the page anew, and boxes are
\* dragged on it at whatever zoom it is shown.
ZoomEnv ==
  [maxDocs |-> 2, maxAnns |-> 2 + MaxAnns, maxPath |-> MaxPath,
   maxLoads |-> 0, maxRenders |-> 1, maxExports |-> 0,
   maxZoom |-> (MaxScale - MinScale) \div ZoomStep, renderOk |-> {TRUE},
   tools |-> {"mosaic"}, pts |-> Wide, texts |-> {PromptNull}, files |-> {},
   canvas |-> FALSE]

InitZoom == InitLoaded(ZoomEnv)

NextZoom ==
  \/ \E i \in 1..env.maxRenders, ok \in env.renderOk : RenderGetPage(i, ok)
  \/ \E i \in 1..env.maxRenders, ok \in env.renderOk : RenderDone(i, ok)
  \/ ZoomOut
  \/ ZoomIn
  \/ MouseEnter
  \/ \E pos \in env.pts : onMouseDown(pos)
  \/ \E pos \in env.pts : MouseUp(pos)
  \/ \E pos \in env.pts : MouseLeave(pos)

SpecZoom == InitZoom /\ [][NextZoom]_vars

\* ------------------------------------------- renders that overlap
\* Pages are turned, the zoom is changed and tabs are switched while up
\* to two renders are in flight; each getPage and each render settles when
\* pdf.js is done with it, in either order.  The two canvases are followed.
RaceEnv ==
  [maxDocs |-> 2, maxAnns |-> 2, maxPath |-> MaxPath,
   maxLoads |-> 0, maxRenders |-> 2, maxExports |-> 0,
   maxZoom |-> MaxZoomSteps, renderOk |-> {TRUE}, tools |-> {"mosaic"},
   pts |-> Far, texts |-> {PromptNull}, files |-> {},
   canvas |-> TRUE]

InitRace == InitLoaded(RaceEnv)

NextRace ==
  \/ \E i \in 1..env.maxRenders, ok \in env.renderOk : RenderGetPage(i, ok)
  \/ \E i \in 1..env.maxRenders : RenderPaint(i)
  \/ \E i \in 1..env.maxRenders, ok \in env.renderOk : RenderDone(i, ok)
  \/ \E id \in 1..env.maxDocs : SelectTab(id)
  \/ PrevPage
  \/ NextPage
  \/ ZoomOut
  \/ ZoomIn

SpecRace == InitRace /\ [][NextRace]_vars

\* ------------------------------------------- navigation and zoom
\* The whole range of the page and zoom controls on the first session: the
\* page buttons, the thumbnails, zoom from 50% to 300% and one step
\* further at either end, with a box drag, undo and redo.
NavEnv ==
  [maxDocs |-> 2, maxAnns |-> 2 + 1, maxPath |-> MaxPath,
   maxLoads |-> 0, maxRenders |-> 1, maxExports |-> 0,
   maxZoom |-> (MaxScale - InitScale) \div ZoomStep + 1,
   renderOk |-> {TRUE}, tools |-> {"mosaic"}, pts |-> Far,
   texts |-> {PromptNull}, files |-> {},
   canvas |-> FALSE]

InitNav == InitLoaded(NavEnv)

NextNav ==
  \/ \E i \in 1..env.maxRenders, ok \in env.renderOk : RenderGetPage(i, ok)
  \/ \E i \in 1..env.maxRenders, ok \in env.renderOk : RenderDone(i, ok)
  \/ handleUndo
  \/ handleRedo
  \/ PrevPage
  \/ NextPage
  \/ \E i \in 0..(MaxPages - 1) : Thumbnail(i)
  \/ ZoomOut
  \/ ZoomIn
  \/ MouseEnter
  \/ \E pos \in env.pts : onMouseDown(pos)
  \/ \E pos \in env.pts : MouseUp(pos)
  \/ \E pos \in env.pts : MouseLeave(pos)

SpecNav == InitNav /\ [][NextNav]_vars

\* ------------------------------------------------------ drags of a box
\* Drags of the box tools between the positions of DevPts (3, 5 and 10
\* pixels across, and the differences between them), with undo and redo.
DragEnv ==
  [maxDocs |-> 2, maxAnns |-> 2 + MaxAnns, maxPath |-> MaxPath,
   maxLoads |-> 0, maxRenders |-> 0, maxExports |-> 0, maxZoom |-> 0,
   renderOk |-> {TRUE}, tools |-> {"mosaic", "rectangle"}, pts |-> DevPts,
   texts |-> {PromptNull}, files |-> {},
   canvas |-> FALSE]

InitDrag == InitLoaded(DragEnv)

NextDrag ==
  \/ handleUndo
  \/ handleRedo
  \/ \E t \in env.tools : SetTool(t)
  \/ MouseEnter
  \/ \E pos \in env.pts : onMouseDown(pos)
  \/ \E pos \in env.pts : onMouseMove(pos)
  \/ \E pos \in env.pts : MouseUp(pos)
  \/ \E pos \in env.pts : MouseLeave(pos)

SpecDrag == InitDrag /\ [][NextDrag]_vars

\* ------------------------------------------ exports of a live session
\* The first session is drawn on, undone, redone and turned to its other
\* page while exports of it are requested, run and settle.
LiveEnv ==
  [maxDocs |-> 2, maxAnns |-> 2 + MaxAnns, maxPath |-> MaxPath,
   maxLoads |-> 0, maxRenders |-> 1, maxExports |-> MaxExports,
   maxZoom |-> 0, renderOk |-> {TRUE}, tools |-> {"mosaic"}, pts |-> Far,
   texts |-> {PromptNull}, files |-> {},
   canvas |-> FALSE]

InitLive == InitLoaded(LiveEnv)

NextLive ==
  \/ \E i \in 1..env.maxRenders, ok \in env.renderOk : RenderGetPage(i, ok)
  \/ \E i \in 1..env.maxRenders, ok \in env.renderOk : RenderDone(i, ok)
  \/ handleUndo
  \/ handleRedo
  \/ PrevPage
  \/ NextPage
  \/ MouseEnter
  \/ \E pos \in env.pts : onMouseDown(pos)
  \/ \E pos \in env.pts : MouseUp(pos)
  \/ \E pos \in env.pts : MouseLeave(pos)
  \/ handleSaveClick
  \/ CancelSave
  \/ performSave
  \/ \E i \in 1..env.maxExports : ExportStart(i)
  \/ \E i \in 1..env.maxExports : ExportFinish(i)

SpecLive == InitLive /\ [][NextLive]_vars

\* ------------------------------------- edits while an export is pending
\* Either session is saved, one export at a time, while tabs
\* are switched and the sessions are edited in every way the program
\* offers: a box is drawn, a text is edited, undo, redo, clear page.
SnapshotEnv ==
  [maxDocs |-> 2, maxAnns |-> 2 + 1, maxPath |-> MaxPath,
   maxLoads |-> 0, maxRenders |-> 1, maxExports |-> 1,
   maxZoom |-> 0, renderOk |-> {TRUE}, tools |-> {"mosaic"}, pts |-> Far,
   texts |-> {PromptNull, "b"}, files |-> {},
   canvas |-> FALSE]

InitSnapshot == InitLoaded(SnapshotEnv)

NextSnapshot ==
  \/ \E i \in 1..env.maxRenders, ok \in env.renderOk : RenderGetPage(i, ok)
  \/ \E i \in 1..env.maxRenders, ok \in env.renderOk : RenderDone(i, ok)
  \/ \E id \in 1..env.maxDocs : SelectTab(id)
  \/ handleUndo
  \/ handleRedo
  \/ ClearPage
  \/ MouseEnter
  \/ \E pos \in env.pts : onMouseDown(pos)
  \/ \E pos \in env.pts : MouseUp(pos)
  \/ \E pos \in env.pts : MouseLeave(pos)
  \/ \E pos \in env.pts, text \in env.texts : handleDoubleClick(pos, text)
  \/ handleSaveClick
  \/ CancelSave
  \/ performSave
  \/ \E i \in 1..env.maxExports : ExportStart(i)
  \/ \E i \in 1..env.maxExports : ExportFinish(i)

SpecSnapshot == InitSnapshot /\ [][NextSnapshot]_vars

\* ------------------------------------------------- pages of a session
\* Boxes drawn on either page of the first session, pages turned (each turn
\* starts a render, which completes), pages cleared, undo and redo.
PagesEnv ==
  [maxDocs |-> 2, maxAnns |-> 2 + StoreAnns, maxPath |-> MaxPath,
   maxLoads |-> 0, maxRenders |-> 1, maxExports |-> 0, maxZoom |-> 0,
   renderOk |-> {TRUE}, tools |-> {"mosaic"}, pts |-> Far,
   texts |-> {PromptNull}, files |-> {},
   canvas |-> FALSE]

InitPages == InitLoaded(PagesEnv)

NextPages ==
  \/ \E i \in 1..env.maxRenders, ok \in env.renderOk : RenderGetPage(i, ok)
  \/ \E i \in 1..env.maxRenders, ok \in env.renderOk : RenderDone(i, ok)
  \/ handleUndo
  \/ handleRedo
  \/ ClearPage
  \/ PrevPage
  \/ NextPage
  \/ MouseEnter
  \/ \E pos \in env.pts : onMouseDown(pos)
  \/ \E pos \in env.pts : MouseUp(pos)
  \/ \E pos \in env.pts : MouseLeave(pos)

SpecPages == InitPages /\ [][NextPages]_vars

\* ------------------------------------------- the undo / redo scenario
\* Three annotations are appended to the empty first session (by any
\* gesture), undo is called twice, a fourth annotation is appended, and redo
\* is called.  The annotations created before (the bystander's) have ids 1
\* and 2, so the four have ids 3 to 6.
Appended == nextAnnId - 2
Appending ==
  \/ Appended < 3
  \/ Appended = 3 /\ Len(activeDoc.redoStack) = 2
Undoing == Appended = 3 /\ Len(activeDoc.redoStack) < 2
Redoing == Appended = 4

ScenarioEnv ==
  [maxDocs |-> 2, maxAnns |-> 2 + 4, maxPath |-> MaxPath,
   maxLoads |-> 0, maxRenders |-> 0, maxExports |-> 0, maxZoom |-> 0,
   renderOk |-> {TRUE}, tools |-> {"mosaic", "pen", "text"}, pts |-> Far,
   texts |-> {PromptNull, "a"}, files |-> {},
   canvas |-> FALSE]

InitScenario == InitLoaded(ScenarioEnv)

NextScenario ==
  \/ Appending /\ \E t \in env.tools : SetTool(t)
  \/ Appending /\ MouseEnter
  \/ Appending /\ \E pos \in env.pts : onMouseDown(pos)
  \/ Appending /\ \E pos \in env.pts : onMouseMove(pos)
  \/ Appending /\ \E pos \in env.pts : MouseUp(pos)
  \/ Appending /\ \E pos \in env.pts : MouseLeave(pos)
  \/ Appending /\ \E pos \in env.pts, text \in env.texts :
                    handleCanvasClick(pos, text)
  \/ Undoing /\ handleUndo
  \/ Redoing /\ handleRedo

SpecScenario == InitScenario /\ [][NextScenario]_vars

\* -------------------------------------------------------------- saving
\* One file is loaded, pages are turned, and the session is saved.
SaveEnv ==
  [maxDocs |-> 1, maxAnns |-> 0, maxPath |-> MaxPath,
   maxLoads |-> MaxLoads, maxRenders |-> MaxRenders,
   maxExports |-> MaxExports, maxZoom |-> 0, renderOk |-> BOOLEAN,
   tools |-> {"mosaic"}, pts |-> Far, texts |-> {PromptNull},
   files |-> {<<MaxPages>>, <<BadFile>>},
   canvas |-> FALSE]

InitSave == InitApp(SaveEnv)

NextSave ==
  \/ \E files \in env.files : LoadStart(files)
  \/ \E i \in 1..env.maxLoads : LoadFinish(i)
  \/ \E i \in 1..env.maxRenders, ok \in env.renderOk : RenderGetPage(i, ok)
  \/ \E i \in 1..env.maxRenders, ok \in env.renderOk : RenderDone(i, ok)
  \/ PrevPage
  \/ NextPage
  \/ handleSaveClick
  \/ CancelSave
  \/ performSave
  \/ \E i \in 1..env.maxExports : ExportStart(i)
  \/ \E i \in 1..env.maxExports : ExportFinish(i)

SpecSave == InitSave /\ [][NextSave]_vars

\* --------------------------------------------- the burn-in pipeline
\* saveRedactedPdf(originalPdfBuffer, redactions), followed from one await to
\* the next.  What the libraries and the browser answer (a document that
\* loads or not, a canvas context or null, a render or an embedPng that
\* resolves or rejects) is the environment's choice at each step.

\* A grouping that puts each redaction in front of its page's list
AddToGroupsInFront(groups, r) ==
  IF \E i \in DOMAIN groups : groups[i].page = r.pageIndex
  THEN [i \in DOMAIN groups |->
          IF groups[i].page = r.pageIndex
          THEN [groups[i] EXCEPT !.rects = <<r>> \o @]
          ELSE groups[i]]
  ELSE Append(groups, [page |-> r.pageIndex, rects |-> <<r>>])

\* redMap: the redactions grouped by page, in the order a Map iterates (the
\* order in which each page index first occurs).
AddToGroups(groups, r) ==
  IF \E i \in DOMAIN groups : groups[i].page = r.pageIndex
  THEN [i \in DOMAIN groups |->
          IF groups[i].page = r.pageIndex
          THEN [groups[i] EXCEPT !.rects = Append(@, r)]
          ELSE groups[i]]
  ELSE Append(groups, [page |-> r.pageIndex, rects |-> <<r>>])

RECURSIVE GroupFrom(_, _)
GroupFrom(rs, k) ==
  IF k = 0 THEN <<>> ELSE AddToGroups(GroupFrom(rs, k - 1), rs[k])

GroupByPage(rs) == GroupFrom(rs, Len(rs))

ExportViewport(page) == Viewport(Null, page, ExportScale)

\* A draw operation that lands on the first page whatever its redaction's
DrawOnFirstPage(page, rect, sampled) ==
  [id |-> rect.id, page |-> 0, x |-> rect.x, y |-> rect.y,
   width |-> rect.width, height |-> rect.height,
   sx |-> 0, sy |-> 0, sw |-> 0, sh |-> 0, gw |-> 1, gh |-> 1,
   sampled |-> sampled]

\* A draw operation whose patch is read below the converted lower-left
\* corner of its redaction
DrawOpFromLowerCorner(page, rect, sampled) ==
  LET v == convertToViewportPoint(ExportViewport(page), rect.x, rect.y)
      vw == rect.width * ExportScale
      vh == rect.height * ExportScale
      blockSize == BlockSize * ExportScale * DocQ
  IN [id |-> rect.id, page |-> page, x |-> rect.x, y |-> rect.y,
      width |-> rect.width, height |-> rect.height,
      sx |-> v[1], sy |-> v[2], sw |-> vw, sh |-> vh,
      gw |-> Max(1, vw \div blockSize), gh |-> Max(1, vh \div blockSize),
      sampled |-> sampled]

\* A draw operation whose patch keeps one cell for each device pixel
DrawOpUnreduced(page, rect, sampled) ==
  [id |-> rect.id, page |-> page, x |-> rect.x, y |-> rect.y,
   width |-> rect.width, height |-> rect.height,
   sx |-> rect.x * ExportScale,
   sy |-> (PageHeight * DocQ - (rect.y + rect.height)) * ExportScale,
   sw |-> rect.width * ExportScale, sh |-> rect.height * ExportScale,
   gw |-> Max(1, (rect.width * ExportScale) \div DevQ),
   gh |-> Max(1, (rect.height * ExportScale) \div DevQ),
   sampled |-> sampled]

\* A draw operation whose grid depends on whether the patch could be sampled
DrawOpGridBySample(page, rect, sampled) ==
  [id |-> rect.id, page |-> page, x |-> rect.x, y |-> rect.y,
   width |-> rect.width, height |-> rect.height,
   sx |-> rect.x * ExportScale,
   sy |-> (PageHeight * DocQ - (rect.y + rect.height)) * ExportScale,
   sw |-> rect.width * ExportScale, sh |-> rect.height * ExportScale,
   gw |-> IF sampled
          THEN Max(1, (rect.width * ExportScale)
                        \div (BlockSize * ExportScale * DocQ))
          ELSE 1,
   gh |-> IF sampled
          THEN Max(1, (rect.height * ExportScale)
                        \div (BlockSize * ExportScale * DocQ))
          ELSE 1,
   sampled |-> sampled]

\* Lines 135-152 and 173-178: where the patch is read from the page raster
\* (device rectangle sx, sy, sw, sh), the grid it is reduced to (gw x gh),
\* and where the image is drawn (the redaction's own rectangle).
DrawOp(page, rect, sampled) ==
  LET v == convertToViewportPoint(ExportViewport(page), rect.x,
                                  rect.y + rect.height)
      vw == rect.width * ExportScale
      vh == rect.height * ExportScale
      blockSize == BlockSize * ExportScale * DocQ
  IN [id |-> rect.id, page |-> page, x |-> rect.x, y |-> rect.y,
      width |-> rect.width, height |-> rect.height,
      sx |-> v[1], sy |-> v[2], sw |-> vw, sh |-> vh,
      gw |-> Max(1, vw \div blockSize), gh |-> Max(1, vh \div blockSize),
      sampled |-> sampled]

appVars == <<documents, activeDocId, toolType, mode, processing,
             showSaveModal, isDragging, startPos, currentMousePos,
             currentPath, currentViewport, pointer, dragDoc, loads, renders,
             exports, nextDocId, nextAnnId, env, offscreenCanvas, canvas>>

Fail == [exp EXCEPT !.pc = "done", !.result = "error"]

\* Lines 92-111: the empty-buffer check, PDFDocument.load, the grouping, and
\* pdfJs.getDocument on a copy of the buffer.
PipeLoad(ok) ==
  /\ exp.pc = "start"
  /\ exp' = IF ~exp.bufferOk \/ ~ok THEN Fail
            ELSE [exp EXCEPT !.pc = "page", !.gi = 1,
                             !.groups = GroupByPage(exp.redactions)]
  /\ UNCHANGED appVars

\* Lines 114-131: the next page of redMap.  A page the document does not
\* have, or a canvas without a 2d context, is passed over (continue); a
\* getPage or render that rejects ends the call.
PipePage(getPageOk, ctxOk, renderOk) ==
  /\ exp.pc = "page"
  /\ exp.gi <= Len(exp.groups)
  /\ LET pageIndex == exp.groups[exp.gi].page IN
     exp' = IF pageIndex >= exp.numPages THEN [exp EXCEPT !.gi = @ + 1]
            ELSE IF ~getPageOk THEN Fail
            ELSE IF ~ctxOk THEN [exp EXCEPT !.gi = @ + 1]
            ELSE IF ~renderOk THEN Fail
            ELSE [exp EXCEPT !.pc = "rect", !.ri = 1, !.raster = <<>>,
                             !.rasterized = Append(@, pageIndex)]
  /\ UNCHANGED appVars

\* Lines 133-180: the next redaction of the page.  Without a patch context
\* nothing is drawn for it; without a temp context the patch stays blank and
\* is embedded and drawn all the same; an embedPng that rejects ends the call.
\* The patch is read from the page raster (162) and written to a canvas of
\* its own (166) and to the PDF page (173): the raster stays as rendered.
PipeRect(patchOk, tempOk, embedOk) ==
  /\ exp.pc = "rect"
  /\ LET g == exp.groups[exp.gi]
         rect == g.rects[exp.ri]
         last == exp.ri = Len(g.rects)
         step == IF last
                 THEN [exp EXCEPT !.pc = "page", !.gi = @ + 1, !.ri = 0]
                 ELSE [exp EXCEPT !.ri = @ + 1]
         read == IF tempOk
                 THEN [step EXCEPT
                         !.patches = Append(@, [id |-> rect.id,
                                                over |-> exp.raster])]
                 ELSE step
     IN exp' = IF ~patchOk THEN step
               ELSE IF ~embedOk THEN [Fail EXCEPT !.patches = read.patches]
               ELSE [read EXCEPT
                       !.ops = Append(@, DrawOp(g.page, rect, tempOk))]
  /\ UNCHANGED appVars

\* Line 183: return await pdfDoc.save()
PipeSave(ok) ==
  /\ exp.pc = "page"
  /\ exp.gi > Len(exp.groups)
  /\ exp' = IF ok THEN [exp EXCEPT !.pc = "done", !.result = "bytes"]
            ELSE Fail
  /\ UNCHANGED appVars

\* The rectangles of the redactions handed to an export, in document units
\* (two that overlap, and one narrower than a block).
ExpRects ==
  {[x |-> 10 * DocQ, y |-> 20 * DocQ, width |-> 30 * DocQ,
    height |-> 40 * DocQ],
   [x |-> 20 * DocQ, y |-> 30 * DocQ, width |-> 30 * DocQ,
    height |-> 40 * DocQ],
   [x |-> 5 * DocQ, y |-> 5 * DocQ, width |-> 6 * DocQ,
    height |-> 100 * DocQ]}

\* A list of redactions: ids by position, each on a page of the document or
\* on the page index just past its last page.
RedactionLists ==
  UNION {
    {[k \in 1..n |->
        Annotation(k, pg[k], rc[k].x, rc[k].y, rc[k].width, rc[k].height,
                   "mosaic", NoPath, NoText)] :
       pg \in [1..n -> 0..MaxPages], rc \in [1..n -> ExpRects]} :
    n \in 1..MaxRects}

\* A call of saveRedactedPdf on a document of MaxPages pages, with a buffer
\* that is intact or detached (byteLength 0).
InitExport ==
  /\ env = AppEnv
  /\ AppStart
  /\ \E rs \in RedactionLists, b \in BOOLEAN :
       exp = [ExpIdle EXCEPT !.pc = "start", !.bufferOk = b,
                             !.numPages = MaxPages, !.redactions = rs]

NextExport ==
  \/ \E ok \in BOOLEAN : PipeLoad(ok)
  \/ \E getPageOk \in BOOLEAN, ctxOk \in BOOLEAN, renderOk \in BOOLEAN :
       PipePage(getPageOk, ctxOk, renderOk)
  \/ \E patchOk \in BOOLEAN, tempOk \in BOOLEAN, embedOk \in BOOLEAN :
       PipeRect(patchOk, tempOk, embedOk)
  \/ \E ok \in BOOLEAN : PipeSave(ok)

SpecExport == InitExport /\ [][NextExport]_vars

\* ------------------------------------- exports of every kind of annotation
\* performSave hands saveRedactedPdf the session's whole annotation list
\* (App.tsx 525), whatever the tools that made its entries.

\* An annotation as the tool of the given type makes it on page pg, at the
\* zoom a session opens with.
MadeWith(id, pg, type) ==
  LET doc == [currIndex |-> pg]
      vp == Viewport(Null, pg, InitScale)
  IN CASE type = "pen" ->
            PenAnnotation(id, doc, vp, <<<<0, 0>>, <<10, 10>>, <<40, 30>>>>)
       [] type = "text" -> TextAnnotation(id, doc, vp, <<10, 10>>, "a")
       [] OTHER -> BoxAnnotation(id, doc, vp, <<10, 10>>, <<40, 30>>, type)

ToolTypes == {"mosaic", "rectangle", "pen", "text"}

\* Lists of one or two annotations on the pages of the document
TypedLists ==
  UNION {
    {[k \in 1..n |-> MadeWith(k, pg[k], ty[k])] :
       pg \in [1..n -> 0..(MaxPages - 1)], ty \in [1..n -> ToolTypes]} :
    n \in 1..2}

InitTyped ==
  /\ env = AppEnv
  /\ AppStart
  /\ \E rs \in TypedLists, b \in BOOLEAN :
       exp = [ExpIdle EXCEPT !.pc = "start", !.bufferOk = b,
                             !.numPages = MaxPages, !.redactions = rs]

SpecTyped == InitTyped /\ [][NextExport]_vars

\* -------------------------------------------- the earlier burn-in pipeline
\* savePdfWithRedactions(originalPdfBytes, redactions) of the earlier
\* utilities, followed from one await to the next in the same record.
PixelSize == 15

CeilDiv(a, b) == (a + b - 1) \div b

\* redactionsByPage: a Record keyed by page index, which for...in visits in
\* ascending order of the keys.
redactionsByPage(rs) ==
  LET ps == {rs[k].pageIndex : k \in DOMAIN rs}
      Nth(n) == CHOOSE q \in ps : Cardinality({r \in ps : r < q}) = n - 1
  IN [n \in 1..Cardinality(ps) |->
        [page |-> Nth(n),
         rects |-> SelectSeq(rs, LAMBDA r : r.pageIndex = Nth(n))]]

\* Lines 111-132 and 151-156: the patch is read from the device rectangle
\* spanned by the two converted corners and reduced to a grid of
\* ceil(size / pixelSize) cells.
OldDrawOp(page, rect) ==
  LET vp == ExportViewport(page)
      c1 == convertToViewportPoint(vp, rect.x, rect.y + rect.height)
      c2 == convertToViewportPoint(vp, rect.x + rect.width, rect.y)
      canvasW == Abs(c2[1] - c1[1])
      canvasH == Abs(c2[2] - c1[2])
      pixelSize == PixelSize * ExportScale * DocQ
  IN [id |-> rect.id, page |-> page, x |-> rect.x, y |-> rect.y,
      width |-> rect.width, height |-> rect.height,
      sx |-> Min(c1[1], c2[1]), sy |-> Min(c1[2], c2[2]),
      sw |-> canvasW, sh |-> canvasH,
      gw |-> Max(1, CeilDiv(canvasW, pixelSize)),
      gh |-> Max(1, CeilDiv(canvasH, pixelSize)),
      sampled |-> TRUE]

\* Line 80: PDFDocument.load(originalPdfBytes), then the grouping.
OldLoad(ok) ==
  /\ exp.pc = "start"
  /\ exp' = IF ~exp.bufferOk \/ ~ok THEN Fail
            ELSE [exp EXCEPT !.pc = "page", !.gi = 1,
                             !.groups = redactionsByPage(exp.redactions)]
  /\ UNCHANGED appVars

\* getPdfPage hands originalPdfBytes itself to pdfjsLib.getDocument (line
\* 15): the bytes are left as they were, or detached when pdf.js transfers
\* them to its worker.
getPdfPage(bufferOk, transferred) == bufferOk /\ ~transferred

\* Lines 90-103: the next page.  getPdfPage rejects on detached bytes and on
\* a page the document does not have; renderPageToCanvas rejects or throws.
OldPage(transferred, renderOk) ==
  /\ exp.pc = "page"
  /\ exp.gi <= Len(exp.groups)
  /\ LET pageIndex == exp.groups[exp.gi].page
         called == [exp EXCEPT
                      !.bufferOk = getPdfPage(exp.bufferOk, transferred)]
     IN exp' = IF ~exp.bufferOk THEN Fail
               ELSE IF pageIndex >= exp.numPages \/ ~renderOk
               THEN [called EXCEPT !.pc = "done", !.result = "error"]
               ELSE [called EXCEPT !.pc = "rect", !.ri = 1,
                                   !.rasterized = Append(@, pageIndex)]
  /\ UNCHANGED appVars

\* Lines 105-158: the next redaction of the page.  Without a patch context
\* or a small-canvas context nothing is drawn for it; an embedPng that
\* rejects ends the call.
OldRect(patchOk, tempOk, embedOk) ==
  /\ exp.pc = "rect"
  /\ LET g == exp.groups[exp.gi]
         rect == g.rects[exp.ri]
         last == exp.ri = Len(g.rects)
         step == IF last
                 THEN [exp EXCEPT !.pc = "page", !.gi = @ + 1, !.ri = 0]
                 ELSE [exp EXCEPT !.ri = @ + 1]
     IN exp' = IF ~patchOk \/ ~tempOk THEN step
               ELSE IF ~embedOk THEN Fail
               ELSE [step EXCEPT !.ops = Append(@, OldDrawOp(g.page, rect))]
  /\ UNCHANGED appVars

\* Line 162: return await pdfDoc.save()
OldSave(ok) ==
  /\ exp.pc = "page"
  /\ exp.gi > Len(exp.groups)
  /\ exp' = IF ok THEN [exp EXCEPT !.pc = "done", !.result = "bytes"]
            ELSE Fail
  /\ UNCHANGED appVars

\* A call of savePdfWithRedactions on the intact bytes of a document of
\* MaxPages pages.
InitOld ==
  /\ env = AppEnv
  /\ AppStart
  /\ \E rs \in RedactionLists :
       exp = [ExpIdle EXCEPT !.pc = "start", !.bufferOk = TRUE,
                             !.numPages = MaxPages, !.redactions = rs]

NextOld ==
  \/ \E ok \in BOOLEAN : OldLoad(ok)
  \/ \E transferred \in BOOLEAN, renderOk \in BOOLEAN :
       OldPage(transferred, renderOk)
  \/ \E patchOk \in BOOLEAN, tempOk \in BOOLEAN, embedOk \in BOOLEAN :
       OldRect(patchOk, tempOk, embedOk)
  \/ \E ok \in BOOLEAN : OldSave(ok)

SpecOld == InitOld /\ [][NextOld]_vars

\* ------------------------------------------- the earlier application
\* The earlier App: one document (pdf), its list of redactions, the page
\* shown and the scale, kept here as the one session of documents; isDrawing
\* is isDragging, activePageViewport is currentViewport, and exp follows one
\* call of handleMagicRedact.
OldScale == 120
OldMinDrag == 5
PageWidth == 100

OldSession(redactions) ==
  [id |-> 1, numPages |-> MaxPages, currIndex |-> 0, scale |-> OldScale,
   annotations |-> redactions, redoStack |-> <<>>]

NoCall == [pc |-> "idle", pageIndex |-> 0]

oldFrame == <<activeDocId, toolType, mode, showSaveModal, currentMousePos,
              currentPath, currentViewport, pointer, dragDoc, loads, renders,
              exports, nextDocId, env, offscreenCanvas, canvas>>

\* The processing overlay covers the main area, canvas and detector button
\* included (lines 347-355).
OldMainShown == ~processing

\* handleMouseDown (lines 116-121)
handleMouseDown(pos) ==
  /\ OldMainShown
  /\ toolType = "mosaic" /\ currentViewport.kind # "null"
  /\ isDragging' = TRUE
  /\ startPos' = pos
  /\ UNCHANGED <<documents, processing, nextAnnId, exp, oldFrame>>

\* handleMouseUp (lines 127-180): a drag narrower or lower than 5 pixels is
\* dropped; otherwise the two corners are converted and the rectangle is
\* appended.
handleMouseUp(pos) ==
  /\ OldMainShown
  /\ isDragging /\ startPos # NoPos /\ currentViewport.kind # "null"
  /\ isDragging' = FALSE
  /\ startPos' = NoPos
  /\ LET width == Abs(pos[1] - startPos[1])
         height == Abs(pos[2] - startPos[2])
         finalX == Min(startPos[1], pos[1])
         finalY == Min(startPos[2], pos[2])
         p1 == convertToPdfPoint(currentViewport, <<finalX, finalY>>)
         p2 == convertToPdfPoint(currentViewport,
                                 <<finalX + width, finalY + height>>)
         d == documents[1]
         newRedaction ==
           Annotation(nextAnnId, d.currIndex, Min(p1[1], p2[1]),
                      Min(p1[2], p2[2]), Abs(p2[1] - p1[1]),
                      Abs(p2[2] - p1[2]), "mosaic", NoPath, NoText)
     IN IF width < OldMinDrag \/ height < OldMinDrag
        THEN UNCHANGED <<documents, nextAnnId>>
        ELSE /\ nextAnnId <= env.maxAnns
             /\ documents' = [documents EXCEPT ![1].annotations =
                                Append(d.annotations, newRedaction)]
             /\ nextAnnId' = nextAnnId + 1
  /\ UNCHANGED <<processing, exp, oldFrame>>

\* The earlier handleUndo (lines 182-188): the last redaction is dropped.
OldUndo ==
  /\ Len(documents[1].annotations) > 0
  /\ documents' = [documents EXCEPT ![1].annotations =
                     SubSeq(@, 1, Len(@) - 1)]
  /\ UNCHANGED <<processing, isDragging, startPos, nextAnnId, exp, oldFrame>>

\* The boxes a detector response holds, in thousandths of the page from its
\* top left corner: a region, a thin sliver, and a box with no width.
Boxes ==
  {[xmin |-> 100, xmax |-> 600, ymin |-> 200, ymax |-> 400],
   [xmin |-> 100, xmax |-> 110, ymin |-> 200, ymax |-> 210],
   [xmin |-> 300, xmax |-> 300, ymin |-> 500, ymax |-> 700]}
Responses ==
  {<<>>} \cup {<<b>> : b \in Boxes} \cup {<<a, b>> : a \in Boxes, b \in Boxes}

\* detectSensitiveData (geminiService lines 69-92): each box of the response
\* scaled to the page in points, its y measured from the bottom; ids are
\* fresh.
detectSensitiveData(boxes, pageIndex, firstId) ==
  [k \in DOMAIN boxes |->
     LET box == boxes[k]
         w == ((box.xmax - box.xmin) * PageWidth * DocQ) \div 1000
         h == ((box.ymax - box.ymin) * PageHeight * DocQ) \div 1000
         x == (box.xmin * PageWidth * DocQ) \div 1000
         y == PageHeight * DocQ - (box.ymax * PageHeight * DocQ) \div 1000
     IN Annotation(firstId + k - 1, pageIndex, x, y, w, h, "mosaic", NoPath,
                   NoText)]

\* handleMagicRedact up to its first await (lines 219-226)
MagicStart ==
  /\ OldMainShown
  /\ exp.pc = "idle"
  /\ processing' = TRUE
  /\ exp' = [pc |-> "detect", pageIndex |-> documents[1].currIndex]
  /\ UNCHANGED <<documents, isDragging, startPos, nextAnnId, oldFrame>>

\* handleMagicRedact once the page is rendered and the detector has answered
\* (lines 238-254): the detected rectangles are appended as they are, or an
\* alert is shown (none detected, or a step failed).
MagicFinish(ok, boxes) ==
  /\ exp.pc = "detect"
  /\ exp' = NoCall
  /\ processing' = FALSE
  /\ LET d == documents[1]
         detectedRects == detectSensitiveData(boxes, exp.pageIndex, nextAnnId)
     IN IF ok /\ Len(detectedRects) # 0
        THEN /\ nextAnnId + Len(detectedRects) - 1 <= env.maxAnns
             /\ documents' = [documents EXCEPT ![1].annotations =
                                d.annotations \o detectedRects]
             /\ nextAnnId' = nextAnnId + Len(detectedRects)
        ELSE UNCHANGED <<documents, nextAnnId>>
  /\ UNCHANGED <<isDragging, startPos, oldFrame>>

MagicEnv ==
  [maxDocs |-> 1, maxAnns |-> 2 + MaxAnns, maxPath |-> MaxPath,
   maxLoads |-> 0, maxRenders |-> 0, maxExports |-> 0, maxZoom |-> 0,
   renderOk |-> {TRUE}, tools |-> {"mosaic"}, pts |-> DevPts,
   texts |-> {PromptNull}, files |-> {},
   canvas |-> FALSE]

\* A document is open in the earlier App, its first page rendered.
InitMagic ==
  /\ env = MagicEnv
  /\ exp = NoCall
  /\ documents = <<OldSession(<<>>)>>
  /\ activeDocId = 1
  /\ toolType = "mosaic"
  /\ mode = "edit"
  /\ processing = FALSE
  /\ showSaveModal = FALSE
  /\ isDragging = FALSE
  /\ startPos = NoPos
  /\ currentMousePos = NoPos
  /\ currentPath = NoPath
  /\ currentViewport = Viewport(1, 0, OldScale)
  /\ pointer = "canvas"
  /\ dragDoc = Null
  /\ loads = <<>>
  /\ renders = <<>>
  /\ exports = <<>>
  /\ nextDocId = 2
  /\ nextAnnId = 1
  /\ offscreenCanvas = NoCanvas
  /\ canvas = Blank

NextMagic ==
  \/ \E pos \in env.pts : handleMouseDown(pos)
  \/ \E pos \in env.pts : handleMouseUp(pos)
  \/ OldUndo
  \/ MagicStart
  \/ \E ok \in BOOLEAN, boxes \in Responses : MagicFinish(ok, boxes)

SpecMagic == InitMagic /\ [][NextMagic]_vars

\* ===================================================== the properties
Ids(s) == [k \in DOMAIN s |-> s[k].id]
Reverse(s) == [k \in DOMAIN s |-> s[Len(s) + 1 - k]]
ActiveAfter == FindDoc(documents', activeDocId')
Appends == nextAnnId' # nextAnnId

\* C1: every step that appends a new annotation to the active session (a box
\* or pen release, a text click) leaves the new annotation last in the
\* session's sequence and the session's redo stack empty, so that a redo
\* issued next changes nothing.
C1_AppendClearsRedo ==
  [][Appends =>
       /\ ActiveAfter.annotations # <<>>
       /\ ActiveAfter.annotations[Len(ActiveAfter.annotations)].id = nextAnnId'
       /\ ActiveAfter.redoStack = <<>>
       /\ RedoUpdate(ActiveAfter) = ActiveAfter]_vars

\* An annotation was undone and a pen stroke was then appended: the stroke is
\* all the session holds.
C1_Witness ==
  /\ Ids(activeDoc.annotations) = <<4>>
  /\ activeDoc.annotations[1].type = "pen"
  /\ activeDoc.redoStack = <<>>

\* C2: undo on a non-empty sequence removes exactly its last annotation and
\* pushes it on top of the redo stack, all earlier annotations and redo
\* entries (and the rest of the session) staying as they were; on an empty
\* sequence undo changes nothing.
C2_Undo ==
  [][handleUndo =>
       LET d == activeDoc
           n == Len(d.annotations)
       IN IF n = 0 THEN ActiveAfter = d
          ELSE /\ ActiveAfter.annotations \o <<d.annotations[n]>>
                    = d.annotations
               /\ ActiveAfter.redoStack = d.redoStack \o <<d.annotations[n]>>
               /\ ActiveAfter =
                    [d EXCEPT !.annotations = ActiveAfter.annotations,
                              !.redoStack = ActiveAfter.redoStack]]_vars

\* Two undos in a row: an annotation is left and the redo stack holds the
\* two undone ones, the later-created one pushed first.
C2_Witness ==
  /\ Ids(activeDoc.annotations) = <<3>>
  /\ Ids(activeDoc.redoStack) = <<5, 4>>

\* C3: redo on a non-empty redo stack removes exactly its top entry (the one
\* pushed last) and appends it at the end of the sequence, everything else
\* staying as it was; on an empty redo stack redo changes nothing.
C3_Redo ==
  [][handleRedo =>
       LET d == activeDoc
           n == Len(d.redoStack)
       IN IF n = 0 THEN ActiveAfter = d
          ELSE /\ ActiveAfter.annotations = d.annotations \o <<d.redoStack[n]>>
               /\ ActiveAfter.redoStack \o <<d.redoStack[n]>> = d.redoStack
               /\ ActiveAfter =
                    [d EXCEPT !.annotations = ActiveAfter.annotations,
                              !.redoStack = ActiveAfter.redoStack]]_vars

\* Three undos, then one redo: the first annotation is back, the other two
\* wait on the redo stack.
C3_Witness ==
  /\ Ids(activeDoc.annotations) = <<3>>
  /\ Ids(activeDoc.redoStack) = <<5, 4>>
  /\ activeDoc.annotations[1].type = "text"
  /\ activeDoc.redoStack[1].type = "pen"

\* C4: in the scenario (A, B, C appended to an empty session, undo, undo, D
\* appended, redo; ids A = 3, B = 4, C = 5, D = 6) the three annotations
\* stay split between the sequence and the redo stack in creation order,
\* after the two undos the sequence is [A] and the redo stack is [C, B] in
\* the order they were popped off the sequence (B on top, the one a redo
\* would restore), and once D is appended the redo stack is empty, redo
\* changes nothing and the sequence is [A, D].
C4_Scenario ==
  LET d == activeDoc IN
  /\ Appended <= 3 =>
       Ids(d.annotations) \o Reverse(Ids(d.redoStack))
         = [k \in 1..Appended |-> 2 + k]
  /\ (Appended = 3 /\ ~Undoing) =>
       /\ Ids(d.annotations) = <<3>>
       /\ Ids(d.redoStack) = <<5, 4>>
       /\ Ids(RedoUpdate(d).annotations) = <<3, 4>>
  /\ Appended = 4 =>
       /\ Ids(d.annotations) = <<3, 6>>
       /\ d.redoStack = <<>>
       /\ RedoUpdate(d) = d

\* D has been appended after the two undos.
C4_Witness ==
  /\ Appended = 4
  /\ Len(activeDoc.annotations) = 2

\* C5: the clear-page button removes every annotation of the current page
\* of the active session, keeps the annotations of every other page in
\* their order, and leaves the redo stack empty, so that a redo issued next
\* changes nothing.
C5_ClearPage ==
  [][ClearPage =>
       LET d == activeDoc IN
       /\ \A k \in DOMAIN ActiveAfter.annotations :
            ActiveAfter.annotations[k].pageIndex # d.currIndex
       /\ ActiveAfter.annotations =
            SelectSeq(d.annotations, LAMBDA r : r.pageIndex # d.currIndex)
       /\ ActiveAfter.redoStack = <<>>
       /\ RedoUpdate(ActiveAfter) = ActiveAfter
       /\ ActiveAfter =
            [d EXCEPT !.annotations = ActiveAfter.annotations,
                      !.redoStack = <<>>]]_vars

\* Of three annotations the middle one, on the page shown, has been cleared:
\* the two of the other page remain in their order.
C5_Witness ==
  /\ Ids(activeDoc.annotations) = <<3, 5>>
  /\ \A k \in 1..2 : activeDoc.annotations[k].pageIndex # activeDoc.currIndex
  /\ activeDoc.redoStack = <<>>
  /\ nextAnnId = 5

\* C6: a text edit changes only the text field of one text annotation of the
\* active session: the sequence keeps its length and order, every other
\* annotation and every other field of the edited one are unchanged, and the
\* redo stack is empty afterwards.
C6_EditText ==
  [][(\E pos \in env.pts, newText \in env.texts :
        handleDoubleClick(pos, newText)) =>
       LET d == activeDoc IN
       /\ Len(ActiveAfter.annotations) = Len(d.annotations)
       /\ \E k \in DOMAIN d.annotations :
            /\ d.annotations[k].type = "text"
            /\ ActiveAfter.annotations[k] =
                 [d.annotations[k] EXCEPT
                    !.text = ActiveAfter.annotations[k].text]
            /\ \A j \in DOMAIN d.annotations :
                 j # k => ActiveAfter.annotations[j] = d.annotations[j]
       /\ ActiveAfter.redoStack = <<>>
       /\ ActiveAfter =
            [d EXCEPT !.annotations = ActiveAfter.annotations,
                      !.redoStack = <<>>]]_vars

\* Of two text labels at the same place the later one has been edited (to
\* the empty text, which no text click creates); a third annotation follows.
C6_Witness ==
  /\ Len(activeDoc.annotations) = 3
  /\ activeDoc.annotations[1].type = "text"
  /\ activeDoc.annotations[1].text = "a"
  /\ activeDoc.annotations[2].type = "text"
  /\ activeDoc.annotations[2].text = ""
  /\ activeDoc.annotations[1].x = activeDoc.annotations[2].x
  /\ activeDoc.annotations[1].y = activeDoc.annotations[2].y

\* C7: no step taken while a session is active (append, undo, redo, clear
\* page, text edit, page turn, zoom) changes any other open session: its
\* annotations, redo stack, current page and zoom stay as they were.
C7_SessionsIsolated ==
  [][\A i \in DOMAIN documents :
       documents[i].id # activeDocId =>
         /\ HasDoc(documents', documents[i].id)
         /\ FindDoc(documents', documents[i].id) = documents[i]]_vars

\* The first session has been annotated, undone, turned to its second page
\* and zoomed, with the second session open all along.
C7_Witness ==
  /\ activeDocId = 1
  /\ activeDoc.currIndex = 1
  /\ activeDoc.scale # InitScale
  /\ activeDoc.annotations # <<>>
  /\ activeDoc.redoStack # <<>>
  /\ HasDoc(documents, 2)

\* C8: whenever saveRedactedPdf returns bytes, every redaction of its input
\* has been drawn at its own rectangle from a patch sampled from its page.
C8_ExportComplete ==
  exp.result = "bytes" =>
    \A k \in DOMAIN exp.redactions :
      \E j \in DOMAIN exp.ops :
        /\ exp.ops[j].id = exp.redactions[k].id
        /\ exp.ops[j].page = exp.redactions[k].pageIndex
        /\ exp.ops[j].x = exp.redactions[k].x
        /\ exp.ops[j].y = exp.redactions[k].y
        /\ exp.ops[j].width = exp.redactions[k].width
        /\ exp.ops[j].height = exp.redactions[k].height
        /\ exp.ops[j].sampled

\* C9: two exports of the same session are never pending or in flight at
\* the same time.
C9_OneExportPerSession ==
  \A i, j \in DOMAIN exports :
    i # j => exports[i].doc # exports[j].doc

\* C10: a step that changes the active document during a drag ends the drag,
\* and a release appends only to the session its drag started on.
C10_GestureCancelled ==
  [][/\ (isDragging /\ activeDocId' # activeDocId) => ~isDragging'
     /\ (isDragging /\ Appends) => dragDoc = activeDocId]_vars

\* The pages the redactions of the followed export lie on
ExpPages == {exp.redactions[k].pageIndex : k \in DOMAIN exp.redactions}

\* C11: the export rasterizes and draws only on pages that carry a
\* redaction: no page outside the set of the redactions' page indices is
\* rasterized, and every draw operation lands on the page of the redaction
\* it is made for.
C11_OnlyAnnotatedPages ==
  /\ \A k \in DOMAIN exp.rasterized : exp.rasterized[k] \in ExpPages
  /\ \A j \in DOMAIN exp.ops :
       \E k \in DOMAIN exp.redactions :
         /\ exp.redactions[k].id = exp.ops[j].id
         /\ exp.redactions[k].pageIndex = exp.ops[j].page

\* An export returned bytes having drawn every redaction, all of them on the
\* second page: the first page was neither rasterized nor drawn on.
C11_Witness ==
  /\ exp.result = "bytes"
  /\ ExpPages = {1}
  /\ Len(exp.ops) = Len(exp.redactions)
  /\ exp.rasterized = <<1>>

\* A step of an export: the request, the call of saveRedactedPdf, its end
ExportStep ==
  \/ performSave
  \/ \E i \in 1..env.maxExports : ExportStart(i)
  \/ \E i \in 1..env.maxExports : ExportFinish(i)

\* C12: no step of an export, whether it ends in the download or in the
\* alert, changes a session: the annotations, redo stack, current page and
\* zoom of every open session, and the active document, are after the step
\* what they were before it.
C12_ExportLeavesSession ==
  [][ExportStep => documents' = documents /\ activeDocId' = activeDocId]_vars

\* An export of the active session is running on the annotations it was
\* requested with, while the session has since been edited and holds redo
\* entries.
C12_Witness ==
  \E i \in DOMAIN exports :
    /\ exports[i].pc = "running"
    /\ exports[i].doc = activeDocId
    /\ exports[i].annotations # <<>>
    /\ activeDoc.annotations # exports[i].annotations
    /\ activeDoc.redoStack # <<>>

\* C13: the original bytes of a document stay intact once loaded: no step
\* of an export leaves them empty or detached, so that every later page of
\* the export, and every later export, is handed the full original.
C13_BufferIntact == [][exp.bufferOk => exp'.bufferOk]_vars

\* A drag of a box tool is in progress on a rendered page.
BoxDrag ==
  /\ isDragging /\ startPos # NoPos
  /\ toolType \notin {"pen", "text"}
  /\ HasActiveDoc /\ currentViewport.kind = "viewport"

\* C14: the release of a box drag whose width or height on the device is
\* below 5 pixels leaves the annotations and the redo stack of the session
\* as they were, and the release of a drag that is not below it appends
\* exactly one annotation.
C14_DragThreshold ==
  [][\A pos \in env.pts :
       (BoxDrag /\ (MouseUp(pos) \/ MouseLeave(pos))) =>
         LET w == Abs(pos[1] - startPos[1])
             h == Abs(pos[2] - startPos[2])
         IN IF w < 5 \/ h < 5
            THEN documents' = documents
            ELSE /\ Len(ActiveAfter.annotations)
                      = Len(activeDoc.annotations) + 1
                 /\ SubSeq(ActiveAfter.annotations, 1,
                           Len(activeDoc.annotations))
                      = activeDoc.annotations]_vars

\* Every annotation of every open session
AllAnnotations ==
  UNION {{documents[i].annotations[k] : k \in DOMAIN documents[i].annotations}
           : i \in DOMAIN documents}

ExampleRect ==
  Annotation(0, 0, 10 * DocQ, 20 * DocQ, 30 * DocQ, 40 * DocQ,
             "mosaic", NoPath, NoText)

\* C16: at every scale s the page is shown at, the device rectangle of an
\* annotation (x, y, w, h) has its top-left at (x*s, (H - (y+h))*s) and the
\* size (w*s, h*s); on a page of height 200 at scale 1.0 the rectangle
\* (10, 20, 30, 40) has its top-left at (10, 140) and the size (30, 40);
\* and a rectangle dragged on the canvas, converted to an annotation and
\* back, is the dragged rectangle.
C16_CornerBased ==
  currentViewport.kind = "viewport" =>
    LET vp == currentViewport
        s == vp.scale
    IN /\ \A a \in AllAnnotations \cup {ExampleRect} :
            DeviceRect(vp, a) =
              [x |-> a.x * s,
               y |-> (PageHeight * DocQ - (a.y + a.height)) * s,
               width |-> a.width * s, height |-> a.height * s]
       /\ (PageHeight = 200 /\ s = 100) =>
            DeviceRect(vp, ExampleRect) =
              [x |-> 10 * DevQ, y |-> 140 * DevQ,
               width |-> 30 * DevQ, height |-> 40 * DevQ]
       /\ \A p \in env.pts, q \in env.pts :
            DeviceRect(vp, BoxAnnotation(0, activeDoc, vp, p, q, "mosaic")) =
              [x |-> Min(p[1], q[1]) * DevQ, y |-> Min(p[2], q[2]) * DevQ,
               width |-> Abs(q[1] - p[1]) * DevQ,
               height |-> Abs(q[2] - p[2]) * DevQ]

\* The page is shown at a scale other than the one it opened at, with a
\* box of unequal sides on it that was dragged away from the origin.
C16_Witness ==
  /\ currentViewport.kind = "viewport"
  /\ currentViewport.scale # InitScale
  /\ \E a \in AllAnnotations :
       a.width # a.height /\ a.x # 0 /\ a.pageIndex = activeDoc.currIndex

\* The place of a redaction in the list handed to the export
ListPos(id) == CHOOSE k \in DOMAIN exp.redactions : exp.redactions[k].id = id

\* C17: the draw operations on one page follow the order of the annotation
\* list: of two operations on the same page, the earlier one belongs to the
\* annotation that comes first in the list, whatever lies between them.
C17_InsertionOrder ==
  \A i \in DOMAIN exp.ops, j \in DOMAIN exp.ops :
    (i < j /\ exp.ops[i].page = exp.ops[j].page) =>
      ListPos(exp.ops[i].id) < ListPos(exp.ops[j].id)

\* Two redactions of one page have been drawn, with a redaction of another
\* page between them in the list.
C17_Witness ==
  \E i \in DOMAIN exp.ops, j \in DOMAIN exp.ops :
    /\ i < j /\ exp.ops[i].page = exp.ops[j].page
    /\ \E k \in DOMAIN exp.redactions :
         /\ ListPos(exp.ops[i].id) < k /\ k < ListPos(exp.ops[j].id)
         /\ exp.redactions[k].pageIndex # exp.ops[i].page

\* The annotation a draw operation was made for
Drawn(op) == exp.redactions[ListPos(op.id)]

\* C18: an export embeds a pixelated image only for a mosaic annotation, and
\* rasterizes only pages that hold one: no rectangle, pen or text annotation
\* is turned into an image, and a page of these alone is never rendered.
C18_VectorNotRasterized ==
  /\ \A j \in DOMAIN exp.ops : Drawn(exp.ops[j]).type = "mosaic"
  /\ \A k \in DOMAIN exp.rasterized :
       \E n \in DOMAIN exp.redactions :
         /\ exp.redactions[n].pageIndex = exp.rasterized[k]
         /\ exp.redactions[n].type = "mosaic"

\* Where a page first occurs in the list handed to the export
FirstPos(pg) ==
  CHOOSE k \in DOMAIN exp.redactions :
    /\ exp.redactions[k].pageIndex = pg
    /\ \A n \in DOMAIN exp.redactions :
         exp.redactions[n].pageIndex = pg => k <= n

\* C19: what an export does is fixed by the list it is given.  Pages are
\* rasterized in the order of their first annotation in the list, each at
\* most once; draw operations come page by page in that order and, within a
\* page, in list order; and each operation's placement, source rectangle and
\* grid are those computed from its annotation, the export scale and the
\* block size alone.  Two runs on the same list can thus differ only in the
\* steps the environment refuses.
C19_Deterministic ==
  /\ \A i \in DOMAIN exp.rasterized, j \in DOMAIN exp.rasterized :
       i < j => FirstPos(exp.rasterized[i]) < FirstPos(exp.rasterized[j])
  /\ \A i \in DOMAIN exp.ops, j \in DOMAIN exp.ops :
       i < j =>
         \/ FirstPos(exp.ops[i].page) < FirstPos(exp.ops[j].page)
         \/ /\ exp.ops[i].page = exp.ops[j].page
            /\ ListPos(exp.ops[i].id) < ListPos(exp.ops[j].id)
  /\ \A j \in DOMAIN exp.ops :
       LET op == exp.ops[j]
           r == Drawn(op)
           block == BlockSize * ExportScale * DocQ
       IN /\ op.page = r.pageIndex
          /\ <<op.x, op.y, op.width, op.height>>
               = <<r.x, r.y, r.width, r.height>>
          /\ op.sx = r.x * ExportScale
          /\ op.sy = (PageHeight * DocQ - (r.y + r.height)) * ExportScale
          /\ op.sw = r.width * ExportScale
          /\ op.sh = r.height * ExportScale
          /\ op.gw = Max(1, op.sw \div block)
          /\ op.gh = Max(1, op.sh \div block)

\* An export has returned bytes after rasterizing two pages and drawing on
\* both, one of the patches without a context to sample it with.
C19_Witness ==
  /\ exp.result = "bytes"
  /\ Len(exp.rasterized) = 2
  /\ \E i \in DOMAIN exp.ops, j \in DOMAIN exp.ops :
       /\ exp.ops[i].page # exp.ops[j].page
       /\ exp.ops[i].sampled /\ ~exp.ops[j].sampled

\* C20: when a load ends with one of its files unreadable, the open
\* documents and the active document id are left as they are, and the
\* processing flag is off.
C20_FailedLoad ==
  [][\A i \in 1..env.maxLoads :
       (/\ LoadFinish(i)
        /\ \E k \in DOMAIN loads[i].files : loads[i].files[k] = BadFile)
         => /\ documents' = documents
            /\ activeDocId' = activeDocId
            /\ ~processing']_vars

\* No load is running, the processing flag is off, and of two open sessions
\* the earlier one, with a box drawn on it, is active; between their ids
\* lies the id drawn for a file by a load that failed.
C20_Witness ==
  /\ loads = <<>>
  /\ ~processing
  /\ \E d \in Sessions, e \in Sessions :
       /\ e.id + 1 < d.id
       /\ \A f \in Sessions : ~(e.id < f.id /\ f.id < d.id)
       /\ e.annotations # <<>>
       /\ activeDocId = e.id

\* C23: every patch the export samples is reduced to a grid of exactly
\* ceil(width / blockSize) columns and ceil(height / blockSize) rows, width
\* and height being the device size of the region.
C23_CeilGrid ==
  \A j \in DOMAIN exp.ops :
    LET op == exp.ops[j]
        block == BlockSize * ExportScale * DocQ
    IN op.sampled =>
         /\ op.gw = CeilDiv(op.sw, block)
         /\ op.gh = CeilDiv(op.sh, block)

\* C24: the patch drawn for a region of W x H device pixels is made of at
\* most ceil(W / blockSize) * ceil(H / blockSize) blocks of one colour each
\* (the cells of its grid, enlarged without smoothing).
C24_BlockCount ==
  \A j \in DOMAIN exp.ops :
    LET op == exp.ops[j]
        block == BlockSize * ExportScale * DocQ
    IN op.gw * op.gh <= CeilDiv(op.sw, block) * CeilDiv(op.sh, block)

\* A sampled patch of several blocks, fewer than the bound, has been drawn.
C24_Witness ==
  \E j \in DOMAIN exp.ops :
    LET op == exp.ops[j]
        block == BlockSize * ExportScale * DocQ
    IN /\ op.sampled
       /\ op.gw > 1 /\ op.gh > 1
       /\ op.gw * op.gh < CeilDiv(op.sw, block) * CeilDiv(op.sh, block)

\* C25: when the detector answers, none of the rectangles appended is one
\* that a drag of the same size on the canvas would have been refused
\* (narrower or lower than the drag threshold at the scale shown).
C25_DetectorRejection ==
  [][(exp.pc = "detect" /\ exp'.pc = "idle") =>
       LET before == documents[1].annotations
           after == documents'[1].annotations
       IN \A k \in DOMAIN after :
            k > Len(before) =>
              /\ after[k].width * documents[1].scale >= OldMinDrag * DevQ
              /\ after[k].height * documents[1].scale >= OldMinDrag * DevQ]_vars

\* C26: applying the mosaic effect to the device rectangle of a mosaic
\* annotation of the page shown reads and writes pixels of that rectangle
\* only.
Inside(a, b) ==
  /\ a.x >= b.x /\ a.x + a.width <= b.x + b.width
  /\ a.y >= b.y /\ a.y + a.height <= b.y + b.height

C26_EffectInsideRect ==
  (HasActiveDoc /\ currentViewport.kind = "viewport") =>
    LET d == FindDoc(documents, activeDocId)
    IN \A k \in DOMAIN d.annotations :
         LET rect == DeviceRect(currentViewport, d.annotations[k])
             effect == applyMosaicEffect(rect)
         IN (d.annotations[k].type = "mosaic"
               /\ d.annotations[k].pageIndex = d.currIndex
               /\ effect.drawn) =>
              /\ Inside(effect.reads, rect)
              /\ Inside(effect.writes, rect)

C28_ReturnsToIdle ==
  [][(/\ isDragging
      /\ CanvasShown /\ ~showSaveModal
      /\ \E pos \in env.pts : MouseUp(pos) \/ MouseLeave(pos))
       => /\ ~isDragging'
          /\ startPos' = NoPos
          /\ currentPath' = NoPath]_vars

\* C29: in every step, an annotation that a session holds before and after
\* (in its sequence or its redo stack) is the same but possibly for the text
\* of a text annotation; and when an annotation has left the sequence of a
\* session that stays open, the step was an undo (the last annotation moved
\* to the redo stack) or a clearing of the page shown.
Held(d) == d.annotations \o d.redoStack

C29_Lifecycle ==
  [][\A i \in DOMAIN documents, j \in DOMAIN documents' :
       documents[i].id = documents'[j].id =>
         LET d == documents[i]
             e == documents'[j]
         IN /\ \A m \in DOMAIN Held(d), n \in DOMAIN Held(e) :
                 Held(d)[m].id = Held(e)[n].id =>
                   /\ [Held(e)[n] EXCEPT !.text = Held(d)[m].text] = Held(d)[m]
                   /\ Held(e)[n].text # Held(d)[m].text
                        => Held(d)[m].type = "text"
            /\ (\E m \in DOMAIN d.annotations :
                  \A n \in DOMAIN e.annotations :
                    e.annotations[n].id # d.annotations[m].id) =>
                 \/ /\ e.annotations
                         = SubSeq(d.annotations, 1, Len(d.annotations) - 1)
                    /\ e.redoStack
                         = Append(d.redoStack,
                                  d.annotations[Len(d.annotations)])
                 \/ /\ e.annotations
                         = SelectSeq(d.annotations,
                                     LAMBDA r : r.pageIndex # d.currIndex)
                    /\ e.redoStack = <<>>]_vars

\* The first session shows its second page and holds a text annotation of
\* its first page, and an annotation of the second page to redo.
C29_Witness ==
  /\ HasActiveDoc
  /\ LET d == FindDoc(documents, activeDocId)
     IN /\ d.currIndex = 1
        /\ \E m \in DOMAIN d.annotations :
             d.annotations[m].type = "text" /\ d.annotations[m].pageIndex = 0
        /\ \E m \in DOMAIN d.redoStack : d.redoStack[m].pageIndex = 1

\* C30: every pen annotation a session holds (in its sequence or its redo
\* stack) has a path of at least two points; a pen release that appends one
\* gives it the points of the gesture, converted, in the order the pointer
\* visited them; and a pen release after fewer than two points leaves every
\* sequence and redo stack as it was.
PensValid ==
  \A i \in DOMAIN documents :
    \A m \in DOMAIN Held(documents[i]) :
      Held(documents[i])[m].type = "pen" =>
        Len(Held(documents[i])[m].path) >= 2

C30_PenPaths ==
  /\ []PensValid
  /\ [][(/\ toolType = "pen" /\ isDragging
          /\ \E pos \in env.pts : MouseUp(pos) \/ MouseLeave(pos)) =>
           /\ Len(currentPath) < 2 => documents' = documents
           /\ documents' # documents =>
                LET after == FindDoc(documents', activeDocId).annotations
                    newAnn == after[Len(after)]
                IN /\ newAnn.type = "pen"
                   /\ Len(newAnn.path) = Len(currentPath)
                   /\ \A k \in DOMAIN currentPath :
                        newAnn.path[k]
                          = convertToPdfPoint(currentViewport,
                                              currentPath[k])]_vars

\* A session holds a pen annotation whose path comes back to where it
\* began, and another that was undone.
C30_Witness ==
  /\ HasActiveDoc
  /\ LET d == FindDoc(documents, activeDocId)
     IN /\ \E m \in DOMAIN d.annotations :
             /\ d.annotations[m].type = "pen"
             /\ Len(d.annotations[m].path) = 3
             /\ d.annotations[m].path[1] # d.annotations[m].path[2]
             /\ d.annotations[m].path[1] = d.annotations[m].path[3]
        /\ \E m \in DOMAIN d.redoStack : d.redoStack[m].type = "pen"

\* Two rectangles of document space that share some area
Overlapping(a, b) ==
  /\ a.x < b.x + b.width /\ b.x < a.x + a.width
  /\ a.y < b.y + b.height /\ b.y < a.y + a.height

\* C31: in an export, the patch of a redaction that overlaps an earlier
\* redaction of its page, one whose pixelated patch has been drawn, is read
\* from a page raster that already carries the earlier redaction's effect.
C31_Compounds ==
  \A a \in DOMAIN exp.redactions, b \in DOMAIN exp.redactions :
    \A i \in DOMAIN exp.ops, j \in DOMAIN exp.patches :
      ( /\ a < b
        /\ exp.redactions[a].pageIndex = exp.redactions[b].pageIndex
        /\ Overlapping(exp.redactions[a], exp.redactions[b])
        /\ exp.ops[i].id = exp.redactions[a].id /\ exp.ops[i].sampled
        /\ exp.patches[j].id = exp.redactions[b].id )
      => \E k \in DOMAIN exp.patches[j].over :
           exp.patches[j].over[k] = exp.redactions[a].id

\* C32: a step that changes the current page or the zoom scale of a session
\* leaves the annotation sequence and the redo stack of every session as
\* they were: same annotations, same fields, same order, same length.
C32_ViewKeepsAnnotations ==
  [][ ( /\ Len(documents') = Len(documents)
        /\ \E i \in DOMAIN documents :
             \/ documents'[i].currIndex # documents[i].currIndex
             \/ documents'[i].scale # documents[i].scale )
      => \A i \in DOMAIN documents :
           /\ documents'[i].annotations = documents[i].annotations
           /\ documents'[i].redoStack = documents[i].redoStack ]_vars

\* The first session shows page 1 at another zoom than 100%, holding an
\* annotation and a redo-stack entry that were both drawn on page 0 at 100%.
C32_Witness ==
  \E i \in DOMAIN documents :
    LET d == documents[i] IN
    /\ d.id = 1 /\ d.currIndex = 1 /\ d.scale # InitScale
    /\ Len(d.annotations) > 0 /\ Len(d.redoStack) > 0
    /\ d.annotations[1].pageIndex = 0
    /\ d.annotations[1].width = 10 * DocQ
    /\ d.redoStack[1].pageIndex = 0
    /\ d.redoStack[1].width = 10 * DocQ

\* k calls of handleUndo, and k calls of handleRedo, on a session
RECURSIVE Undos(_, _)
Undos(d, k) == IF k = 0 THEN d ELSE Undos(UndoUpdate(d), k - 1)

RECURSIVE Redos(_, _)
Redos(d, k) == IF k = 0 THEN d ELSE Redos(RedoUpdate(d), k - 1)

\* C33: on every session the program reaches, undo then redo (with an
\* annotation to undo) and redo then undo (with an entry to redo) give back
\* the annotation sequence and the redo stack exactly, and so do k undos
\* followed by k redos for every k up to the length of the sequence; and
\* every step that undoes is taken back by redo, every step that redoes by
\* undo.
C33_UndoRedoInverse ==
  /\ [](\A i \in DOMAIN documents :
         LET d == documents[i] IN
         /\ Len(d.annotations) > 0 => RedoUpdate(UndoUpdate(d)) = d
         /\ Len(d.redoStack) > 0 => UndoUpdate(RedoUpdate(d)) = d
         /\ \A k \in 1..Len(d.annotations) : Redos(Undos(d, k), k) = d)
  /\ [][ /\ handleUndo =>
            \A i \in DOMAIN documents :
              documents[i] = IF IsActive(documents'[i])
                             THEN RedoUpdate(documents'[i])
                             ELSE documents'[i]
         /\ handleRedo =>
            \A i \in DOMAIN documents :
              documents[i] = IF IsActive(documents'[i])
                             THEN UndoUpdate(documents'[i])
                             ELSE documents'[i] ]_vars

\* The first session after undo was called once on three annotations: two
\* annotations to undo further and an entry to redo.
C33_Witness ==
  \E i \in DOMAIN documents :
    /\ documents[i].id = 1
    /\ Len(documents[i].annotations) = 2
    /\ Len(documents[i].redoStack) = 1
    /\ \A k \in 1..2 : documents[i].annotations[k].id
                          < documents[i].redoStack[1].id

\* C34: whenever a gesture appends an annotation to a session, the stored
\* viewport it is converted with is the viewport of that session's current
\* page and zoom.
C34_ViewportOfTheMoment ==
  [][\A i \in DOMAIN documents :
       ( /\ i \in DOMAIN documents'
         /\ documents'[i].id = documents[i].id
         /\ nextAnnId' = nextAnnId + 1
         /\ Len(documents'[i].annotations)
              = Len(documents[i].annotations) + 1
         /\ documents'[i].annotations[Len(documents'[i].annotations)].id
              = nextAnnId' )
       => currentViewport = Viewport(documents[i].id, documents[i].currIndex,
                                     documents[i].scale)]_vars

\* C35: once no page render is in flight, the stored viewport and the base
\* canvas are those of the active session's current page and zoom.
C35_LastStartedWins ==
  (renders = <<>> /\ HasActiveDoc) =>
    /\ currentViewport
         = Viewport(activeDoc.id, activeDoc.currIndex, activeDoc.scale)
    /\ offscreenCanvas
         = Raster(activeDoc.id, activeDoc.currIndex, activeDoc.scale)

\* C36: an export is requested with the annotation list of the session
\* that is active when the modal is confirmed, and keeps that session and
\* that list until it ends: no step, of the export or of anything done
\* meanwhile, changes what an export that is pending or running burns in.
C36_ExportSnapshot ==
  [][ /\ Len(exports') = Len(exports) =>
           \A i \in DOMAIN exports :
             /\ exports'[i].doc = exports[i].doc
             /\ exports'[i].annotations = exports[i].annotations
      /\ Len(exports') > Len(exports) =>
           /\ exports' = Append(exports, exports'[Len(exports')])
           /\ exports'[Len(exports')].doc = activeDocId
           /\ exports'[Len(exports')].annotations = activeDoc.annotations
      /\ Len(exports') < Len(exports) =>
           \E i \in DOMAIN exports : exports' = RemoveAt(exports, i) ]_vars

\* An export requested on one annotation has started while its session,
\* since edited, holds two.
C36_Witness ==
  \E i \in DOMAIN exports :
    /\ exports[i].pc = "running"
    /\ HasDoc(documents, exports[i].doc)
    /\ Len(exports[i].annotations) = 1
    /\ Len(FindDoc(documents, exports[i].doc).annotations) = 2

\* C37: whenever no file load, no page render and no export is pending or
\* in flight, the processing flag is false.
C37_ProcessingReflectsWork ==
  (loads = <<>> /\ renders = <<>> /\ exports = <<>>) => ~processing

\* C38: the active document id is null or the id of an open document, and
\* it is null exactly when no document is open.
C38_ActiveIsOpen ==
  /\ activeDocId = Null \/ HasDoc(documents, activeDocId)
  /\ activeDocId = Null <=> Len(documents) = 0

\* Document 1 was active and has been closed while its page was being
\* rendered; document 2, still open, is the active one.
C38_Witness ==
  /\ \E i \in DOMAIN renders : renders[i].doc = 1
  /\ ~HasDoc(documents, 1)
  /\ HasDoc(documents, 2)
  /\ activeDocId = 2

\* C39: in every open session that has a page, the current page index is
\* one of 0..numPages-1, the zoom scale lies between 50% and 300%, and
\* every annotation, in the sequence or on the redo stack, is on a page the
\* document has.
C39_ViewInRange ==
  \A i \in DOMAIN documents :
    LET d == documents[i] IN
    d.numPages >= 1 =>
      /\ d.currIndex \in 0..(d.numPages - 1)
      /\ d.scale >= MinScale /\ d.scale <= MaxScale
      /\ \A k \in DOMAIN d.annotations :
           d.annotations[k].pageIndex \in 0..(d.numPages - 1)
      /\ \A k \in DOMAIN d.redoStack :
           d.redoStack[k].pageIndex \in 0..(d.numPages - 1)

\* The first session zoomed in to the upper limit on its last page, with an
\* annotation drawn there.
C39_Witness ==
  \E i \in DOMAIN documents :
    LET d == documents[i] IN
    /\ d.id = 1 /\ d.scale = MaxScale /\ d.currIndex = d.numPages - 1
    /\ Len(d.annotations) = 1
    /\ d.annotations[1].pageIndex = d.numPages - 1
    /\ d.annotations[1].width * MaxScale = 10 * DevQ
====
